---- MODULE Spec2Model ----
(***************************************************************************)
(* Memory & Learning Core of the personalised-assistant agent:             *)
(*   learning/integrator.py          LearningIntegrator                    *)
(*   memory/hierarchical.py          HierarchicalMemory                    *)
(*   memory/preference_graph.py      PreferenceGraph                       *)
(*   learning/knowledge_updater.py   KnowledgeUpdater                      *)
(*   learning/forgetting_prevention.py ForgettingPreventionSystem          *)
(*   storage/repositories.py         Memory/Preference/Rule repositories   *)
(*                                                                         *)
(* Floats in [0,1] (confidence, importance, strength, rates) are fixed     *)
(* point numbers: the integer n stands for n / Unit.  Times are integers   *)
(* (seconds for LearningUpdate.created_at, half days for the clock).        *)
(***************************************************************************)
EXTENDS Integers, Sequences, FiniteSets, TLC

VARIABLES
    batch,      \* integrate(): the input list, as the caller passed it
    out,        \* integrate(): the returned list
    mems,       \* MemoryRepository: the rows of table memories
    prefs,      \* PreferenceRepository: the rows of table preferences
    rules,      \* RuleRepository: set of rows of table rules
    protected,  \* ForgettingPreventionSystem.protected_knowledge
    schedule,   \* ForgettingPreventionSystem.rehearsal_schedule
    now,        \* datetime.utcnow(), in half days
    last,       \* the last call: its name, arguments and return value
    calls,      \* the number of calls made so far
    index,      \* VectorStore: _vocabulary and _idf
    implicit_extractor, \* ImplicitSignalExtractor: rejection_patterns, adoption_rates
    behavioral_analyzer \* BehavioralPatternAnalyzer: short_term, medium_term

vars == <<batch, out, mems, prefs, rules, protected, schedule, now, last, calls, index,
          implicit_extractor, behavioral_analyzer>>

\* 1.0 as a fixed point number
Unit == 10000

Min(a, b) == IF a < b THEN a ELSE b
Max(a, b) == IF a > b THEN a ELSE b

\* x * (n/10) for a fixed point x
Tenths(x, n) == (x * n) \div 10

Range(s) == {s[i] : i \in 1..Len(s)}

(***************************************************************************)
(* models/learning.py, models/base.py                                      *)
(***************************************************************************)
Users == {"u1", "u2"}

\* Priority -> LearningIntegrator.priority_order
PriorityOrder(p) ==
    CASE p = "critical" -> 4
      [] p = "high"     -> 3
      [] p = "medium"   -> 2
      [] p = "low"      -> 1
      [] OTHER          -> 0

\* update_data is a dict: a function from the keys it holds.  A text value
\* is the list of its words; the value of "context" is a dict, kept as its
\* number of entries.
EmptyPayload == [k \in {} |-> 0]

\* d.get(k, default)
Get(d, k, default) == IF k \in DOMAIN d THEN d[k] ELSE default

\* d[k] = v
Put(d, k, v) == [x \in DOMAIN d \cup {k} |-> IF x = k THEN v ELSE d[x]]

\* `not update.update_data`
IsEmptyPayload(p) == DOMAIN p = {}

\* LearningUpdate
Update(i, u, t, c, p, d, a, s, at) ==
    [id |-> i, user |-> u, type |-> t, conf |-> c, prio |-> p, payload |-> d,
     affected |-> a, source |-> s, created |-> at]

(***************************************************************************)
(* learning/integrator.py.  The Python lists hold references: objs is the  *)
(* heap (id -> LearningUpdate), a list is a sequence of ids.               *)
(***************************************************************************)
HourSeconds == 3600

\* IsMoreSpecific with the two updates exchanged
IsMoreSpecificReversed(u1, u2) ==
    2 * Get(u2.payload, "context", 0) > 3 * Get(u1.payload, "context", 0)

\* _is_more_specific: len(ctx1) > len(ctx2) * 1.5
IsMoreSpecific(u1, u2) ==
    2 * Get(u1.payload, "context", 0) > 3 * Get(u2.payload, "context", 0)

\* CheckConflict without the test of the user
CheckConflictAnyUser(u1, u2) ==
    IF u1.affected \cap u2.affected = {} THEN "none"
    ELSE IF u1.source = "explicit" /\ u2.source = "implicit"
         THEN "explicit_vs_implicit"
    ELSE IF (IF u1.created >= u2.created THEN u1.created - u2.created
                                          ELSE u2.created - u1.created) < HourSeconds
            /\ u1.type = u2.type
         THEN "recent_vs_historical"
    ELSE IF IsMoreSpecific(u1, u2) \/ IsMoreSpecific(u2, u1)
         THEN "specific_vs_general"
    ELSE "none"

\* _check_conflict(u1, u2), "none" for None
CheckConflict(u1, u2) ==
    IF u1.user # u2.user THEN "none"
    ELSE IF u1.affected \cap u2.affected = {} THEN "none"
    ELSE IF u1.source = "explicit" /\ u2.source = "implicit"
         THEN "explicit_vs_implicit"
    ELSE IF (IF u1.created >= u2.created THEN u1.created - u2.created
                                          ELSE u2.created - u1.created) < HourSeconds
            /\ u1.type = u2.type
         THEN "recent_vs_historical"
    ELSE IF IsMoreSpecific(u1, u2) \/ IsMoreSpecific(u2, u1)
         THEN "specific_vs_general"
    ELSE "none"

\* _detect_conflicts: the pairs i < j in list order, as (type, id1, id2)
RECURSIVE PairsFrom(_, _, _)
PairsFrom(lst, i, j) ==
    IF i > Len(lst) THEN <<>>
    ELSE IF j > Len(lst) THEN PairsFrom(lst, i + 1, i + 2)
    ELSE <<<<lst[i], lst[j]>>>> \o PairsFrom(lst, i, j + 1)

DetectConflicts(objs, lst) ==
    LET pairs == PairsFrom(lst, 1, 2)
        typed == [k \in 1..Len(pairs) |->
                    [type |-> CheckConflict(objs[pairs[k][1]], objs[pairs[k][2]]),
                     u1 |-> pairs[k][1], u2 |-> pairs[k][2]]]
    IN  SelectSeq(typed, LAMBDA c : c.type # "none")

\* _resolve_conflict: reads the objects as they are now
ResolveConflict(objs, c) ==
    LET u1 == objs[c.u1]
        u2 == objs[c.u2]
    IN  CASE c.type = "explicit_vs_implicit" ->
               IF u1.source = "explicit"
               THEN [action |-> "discard_loser", winner |-> c.u1, loser |-> c.u2]
               ELSE [action |-> "discard_loser", winner |-> c.u2, loser |-> c.u1]
          [] c.type = "recent_vs_historical" ->
               IF u1.conf > u2.conf + Tenths(Unit, 2)
               THEN [action |-> "reduce_loser_confidence",
                     winner |-> c.u1, loser |-> c.u2]
               ELSE IF u1.created > u2.created
               THEN [action |-> "merge_with_recency_weight",
                     winner |-> c.u1, loser |-> c.u2]
               ELSE [action |-> "merge_with_recency_weight",
                     winner |-> c.u2, loser |-> c.u1]
          [] c.type = "specific_vs_general" ->
               IF IsMoreSpecific(u1, u2)
               THEN [action |-> "add_exception_to_general",
                     winner |-> c.u1, loser |-> c.u2]
               ELSE [action |-> "add_exception_to_general",
                     winner |-> c.u2, loser |-> c.u1]
          [] OTHER -> [action |-> "keep_both", winner |-> c.u1, loser |-> c.u2]

\* ApplyResolution with the recency merge using the factor of the confidence
\* reduction (0.5 for 0.7)
ApplyResolutionHalf(s, r) ==
    LET inList == r.loser \in Range(s.lst)
    IN  CASE r.action = "discard_loser" ->
               [s EXCEPT !.lst = SelectSeq(s.lst, LAMBDA i : i # r.loser)]
          [] r.action \in {"reduce_loser_confidence", "merge_with_recency_weight"}
             /\ inList ->
               [s EXCEPT !.objs[r.loser].conf = Tenths(@, 5)]
          [] r.action = "add_exception_to_general" /\ inList ->
               [s EXCEPT !.objs[r.loser].payload =
                    Put(@, "exceptions",
                        Append(Get(@, "exceptions", <<>>),
                               [context |-> Get(s.objs[r.winner].payload, "context", 0),
                                override_id |-> s.objs[r.winner].id]))]
          [] OTHER -> s

\* _apply_resolution on the state s = [objs, lst]
ApplyResolution(s, r) ==
    LET inList == r.loser \in Range(s.lst)
    IN  CASE r.action = "discard_loser" ->
               [s EXCEPT !.lst = SelectSeq(s.lst, LAMBDA i : i # r.loser)]
          [] r.action = "reduce_loser_confidence" /\ inList ->
               [s EXCEPT !.objs[r.loser].conf = Tenths(@, 5)]
          [] r.action = "merge_with_recency_weight" /\ inList ->
               [s EXCEPT !.objs[r.loser].conf = Tenths(@, 7)]
          [] r.action = "add_exception_to_general" /\ inList ->
               [s EXCEPT !.objs[r.loser].payload =
                    Put(@, "exceptions",
                        Append(Get(@, "exceptions", <<>>),
                               [context |-> Get(s.objs[r.winner].payload, "context", 0),
                                override_id |-> s.objs[r.winner].id]))]
          [] OTHER -> s

\* _resolve_conflicts: conflicts are detected once, then resolved in order
RECURSIVE ResolveFrom(_, _, _)
ResolveFrom(s, conflicts, k) ==
    IF k > Len(conflicts) THEN s
    ELSE ResolveFrom(ApplyResolution(s, ResolveConflict(s.objs, conflicts[k])),
                     conflicts, k + 1)

ResolveConflicts(s) == ResolveFrom(s, DetectConflicts(s.objs, s.lst), 1)

\* _check_consistency: clamp confidence in place, skip empty payloads
CheckConsistency(s) ==
    LET clamped == [i \in DOMAIN s.objs |->
                      IF i \in Range(s.lst)
                      THEN [s.objs[i] EXCEPT !.conf = Max(0, Min(Unit, @))]
                      ELSE s.objs[i]]
    IN  [objs |-> clamped,
         lst  |-> SelectSeq(s.lst, LAMBDA i : ~IsEmptyPayload(clamped[i].payload))]

\* sort_key(u) > sort_key(v), tuples compared lexicographically
KeyGreater(u, v) ==
    \/ PriorityOrder(u.prio) > PriorityOrder(v.prio)
    \/ /\ PriorityOrder(u.prio) = PriorityOrder(v.prio)
       /\ \/ u.conf > v.conf
          \/ u.conf = v.conf /\ u.created > v.created

\* a sort that leaves the list as it is
InsertDescUnsorted(objs, sorted, i) == Append(sorted, i)

\* sorted(..., reverse=True) is stable: equal keys keep their list order
RECURSIVE InsertDesc(_, _, _)
InsertDesc(objs, sorted, i) ==
    IF sorted = <<>> THEN <<i>>
    ELSE IF KeyGreater(objs[i], objs[Head(sorted)])
         THEN <<i>> \o sorted
         ELSE <<Head(sorted)>> \o InsertDesc(objs, Tail(sorted), i)

RECURSIVE SortFrom(_, _, _, _)
SortFrom(objs, lst, k, acc) ==
    IF k > Len(lst) THEN acc
    ELSE SortFrom(objs, lst, k + 1, InsertDesc(objs, acc, lst[k]))

SortByPriority(s) == [s EXCEPT !.lst = SortFrom(s.objs, s.lst, 1, <<>>)]

\* integrate(updates): the heap and the returned list of ids
Integrate(b) ==
    LET s0 == [objs |-> [i \in 1..Len(b) |-> b[i]],
               lst  |-> [i \in 1..Len(b) |-> i]]
    IN  IF b = <<>> THEN s0
        ELSE SortByPriority(CheckConsistency(ResolveConflicts(s0)))

(***************************************************************************)
(* storage/repositories.py MemoryRepository, memory/vector_store.py,       *)
(* memory/hierarchical.py.  The table memories is a set of rows, one per   *)
(* id.  The clock counts half days.  A content is the list of its words.   *)
(***************************************************************************)
DayUnits == 2

\* timedelta.days of (t1 - t0)
DaysBetween(t0, t1) == (t1 - t0) \div DayUnits

\* the words _tokenize keeps, in the order sorted() gives them; every other
\* word of a text is a stop word or has fewer than three letters
IndexWords == <<"alpha", "beta", "gamma">>

\* _tokenize(text)
Tokenize(text) == SelectSeq(text, LAMBDA w : w \in Range(IndexWords))

Count(text, w) == Cardinality({k \in 1..Len(text) : text[k] = w})

\* math.log(n / d) in tenths, rounded, for the n and d that occur
LnTenths(n, d) ==
    CASE n = d -> 0
      [] n = 1 /\ d = 2 -> -7
      [] n = 2 /\ d = 3 -> -4
      [] n = 3 /\ d = 2 -> 4
      [] n = 3 /\ d = 4 -> -3
      [] n = 4 /\ d = 2 -> 7
      [] n = 4 /\ d = 3 -> 3
      [] n = 4 /\ d = 5 -> -2
      [] n = 5 /\ d = 2 -> 9
      [] n = 5 /\ d = 3 -> 5
      [] n = 5 /\ d = 4 -> 2
      [] n = 5 /\ d = 6 -> -2
      [] n = 6 /\ d = 2 -> 11
      [] n = 6 /\ d = 3 -> 7
      [] n = 6 /\ d = 4 -> 4
      [] n = 6 /\ d = 5 -> 2
      [] n = 6 /\ d = 7 -> -2
      [] OTHER -> IF n > d THEN 1 ELSE -1

\* VectorStore.__init__: _vocabulary and _idf
EmptyIndex == [vocabulary |-> <<>>, idf |-> [w \in {} |-> 0]]

\* _build_vocabulary(texts)
BuildVocabulary(texts) ==
    LET all == UNION {Range(Tokenize(texts[k])) : k \in 1..Len(texts)}
        df(w) == Cardinality({k \in 1..Len(texts) : w \in Range(Tokenize(texts[k]))})
    IN  [vocabulary |-> SelectSeq(IndexWords, LAMBDA w : w \in all),
         idf |-> [w \in all |-> LnTenths(Max(1, Len(texts)), 1 + df(w))]]

\* create_embedding(text) with the index ix: the embedding and the index
\* left behind.  A component is count * idf: the positive factors 1/len and
\* 1/norm are left out, cosines do not depend on them.  <<>> is None.
CreateEmbedding(ix, text) ==
    LET tokens == Tokenize(text)
        built  == IF ix.vocabulary = <<>> THEN BuildVocabulary(<<text>>) ELSE ix
    IN  IF tokens = <<>>
        THEN [emb |-> [k \in 1..Max(1, Len(ix.vocabulary)) |-> 0], index |-> ix]
        ELSE [emb |-> [k \in 1..Len(built.vocabulary) |->
                          Count(tokens, built.vocabulary[k]) * built.idf[built.vocabulary[k]]],
              index |-> built]

\* the vocabulary and the index the first store(), of "alpha beta", builds
Vocabulary == <<"alpha", "beta">>

FirstIndex == BuildVocabulary(<<Vocabulary>>)

\* np.dot(a, b) after the shorter vector is padded with zeros
RECURSIVE DotFrom(_, _, _)
DotFrom(a, b, k) ==
    IF k > Len(a) \/ k > Len(b) THEN 0
    ELSE a[k] * b[k] + DotFrom(a, b, k + 1)

Dot(a, b) == DotFrom(a, b, 1)

\* _cosine_similarity(a, b) > 0.8; similarity is 0.0 when a norm is 0
CosineAbove08(a, b) ==
    /\ Dot(a, a) # 0 /\ Dot(b, b) # 0
    /\ Dot(a, b) > 0
    /\ 100 * Dot(a, b) * Dot(a, b) > 64 * Dot(a, a) * Dot(b, b)

Row(i, u, k, c, e, imp, acc, at) ==
    [id |-> i, user |-> u, kind |-> k, content |-> c, emb |-> e,
     imp |-> imp, acc |-> acc, at |-> at]

\* MemoryRepository.delete / save (INSERT OR REPLACE by id)
DeleteRow(rows, i) == {r \in rows : r.id # i}
SaveRow(rows, row) == DeleteRow(rows, row.id) \cup {row}

\* an update_access that counts the access and leaves last_accessed
UpdateAccessCountOnly(rows, i, t) ==
    {IF r.id = i THEN [r EXCEPT !.acc = @ + 1] ELSE r : r \in rows}

\* MemoryRepository.update_access
UpdateAccess(rows, i, t) ==
    {IF r.id = i THEN [r EXCEPT !.acc = @ + 1, !.at = t] ELSE r : r \in rows}

\* GetByUser without the WHERE user_id = ?
GetByAnyUser(rows, u) ==
    LET n == Cardinality(rows)
    IN  {o \in [1..n -> rows] :
            /\ \A i, j \in 1..n : i # j => o[i] # o[j]
            /\ \A i \in 1..n, j \in 1..n : i < j => o[i].at >= o[j].at}

\* the lists get_by_user(user) may return: the user's rows ORDER BY
\* last_accessed DESC, rows with equal last_accessed in any order
GetByUser(rows, u) ==
    LET mine == {r \in rows : r.user = u}
        n    == Cardinality(mine)
    IN  {o \in [1..n -> mine] :
            /\ \A i, j \in 1..n : i # j => o[i] # o[j]
            /\ \A i \in 1..n, j \in 1..n : i < j => o[i].at >= o[j].at}

\* consolidate, lines 144-163: the group of memories[i] is memories[i] and
\* every later unprocessed entry more than 0.8 similar to memories[i]
GroupOf(memories, i, processed) ==
    <<i>> \o SelectSeq([k \in 1..(Len(memories) - i) |-> i + k],
                       LAMBDA j : /\ memories[j].id \notin processed
                                  /\ memories[i].emb # <<>>
                                  /\ memories[j].emb # <<>>
                                  /\ CosineAbove08(memories[i].emb, memories[j].emb))

RECURSIVE BuildGroups(_, _, _)
BuildGroups(memories, i, processed) ==
    IF i > Len(memories) THEN <<>>
    ELSE IF memories[i].id \in processed
         THEN BuildGroups(memories, i + 1, processed)
    ELSE LET group == GroupOf(memories, i, processed)
             done  == processed \cup {memories[group[k]].id : k \in 1..Len(group)}
         IN  (IF Len(group) > 1 THEN <<group>> ELSE <<>>)
             \o BuildGroups(memories, i + 1, done)

\* group.sort(key=(importance, access_count), reverse=True)[0]: the first
\* member, in list order, that no member beats
Beats(m, n) == m.imp > n.imp \/ (m.imp = n.imp /\ m.acc > n.acc)

Primary(memories, group) ==
    LET best == {k \in 1..Len(group) :
                    \A l \in 1..Len(group) :
                        ~Beats(memories[group[l]], memories[group[k]])}
    IN  group[CHOOSE k \in best : \A l \in best : k <= l]

\* consolidate, lines 166-178, for one group
MergeGroup(rows, memories, group) ==
    LET p      == Primary(memories, group)
        boost  == Min(Unit, memories[p].imp + Tenths(Unit, 1) * Len(group))
        others == {memories[group[k]].id : k \in 1..Len(group)} \ {memories[p].id}
    IN  SaveRow({r \in rows : r.id \notin others},
                [memories[p] EXCEPT !.imp = boost])

RECURSIVE MergeGroups(_, _, _, _)
MergeGroups(rows, memories, groups, k) ==
    IF k > Len(groups) THEN rows
    ELSE MergeGroups(MergeGroup(rows, memories, groups[k]), memories, groups, k + 1)

\* consolidate(user) when get_by_user returned the list memories
Consolidate(rows, memories) ==
    MergeGroups(rows, memories, BuildGroups(memories, 1, {}), 1)

\* Forget with the three conditions joined by "or"
ForgetAnyCondition(rows, u, threshold, t) ==
    {r \in rows :
        ~( /\ r.user = u
           /\ \/ r.imp < threshold
              \/ DaysBetween(r.at, t) > 30
              \/ r.acc < 3 )}

\* forget(user, decay_threshold) at time t
Forget(rows, u, threshold, t) ==
    {r \in rows :
        ~( /\ r.user = u
           /\ r.imp < threshold
           /\ DaysBetween(r.at, t) > 30
           /\ r.acc < 3 )}

\* HierarchicalMemory.store at time t; newId is the uuid drawn
Store(rows, ix, u, content, kind, imp, t, newId) ==
    LET e == CreateEmbedding(ix, content)
    IN  [rows  |-> SaveRow(rows, Row(newId, u, kind, content, e.emb, imp, 0, t)),
         index |-> e.index,
         ret   |-> newId]

\* HierarchicalMemory.update_importance
UpdateImportance(rows, i, imp) ==
    {IF r.id = i THEN [r EXCEPT !.imp = Max(0, Min(Unit, imp))] ELSE r : r \in rows}

\* the largest r with r * r <= x, for x up to 100 * 100
ISqrt(x) == CHOOSE r \in 0..100 : r * r <= x /\ (r + 1) * (r + 1) > x

\* _cosine_similarity(a, b) in hundredths; 0 when a norm is 0
CosineSimilarity(a, b) ==
    LET n == Dot(a, b)
        d == Dot(a, a) * Dot(b, b)
    IN  IF d = 0 THEN 0
        ELSE LET c == ISqrt(((100 * n * n) \div d) * 100)
             IN  IF n < 0 THEN 0 - c ELSE c

\* exp(-days_old / 30) in 1/Unit, h half days after the last access:
\* exp(-1/60) = 0.9835 taken h times
RECURSIVE RecencyScore(_)
RecencyScore(h) ==
    IF h <= 0 THEN Unit ELSE (RecencyScore(h - 1) * 9835) \div Unit

\* similarity_search, lines 137-148, with the default recency_weight 0.3:
\* the final score in 1/Unit
FinalScore(qe, emb, memory, t) ==
    ((70 * CosineSimilarity(qe, emb) + (30 * RecencyScore(t - memory.at)) \div 100)
        * ((Unit + memory.imp) \div 2)) \div Unit

\* results.sort(key=score, reverse=True): stable, descending
InsertByScore(acc, x) ==
    LET k == Cardinality({j \in 1..Len(acc) : acc[j].score >= x.score})
    IN  SubSeq(acc, 1, k) \o <<x>> \o SubSeq(acc, k + 1, Len(acc))

RECURSIVE SortByScore(_, _, _)
SortByScore(results, k, acc) ==
    IF k > Len(results) THEN acc
    ELSE SortByScore(results, k + 1, InsertByScore(acc, results[k]))

\* results[:top_k]
Take(results, top_k) == SubSeq(results, 1, Min(top_k, Len(results)))

\* similarity_search(user, query, kind, top_k) at time t when get_by_user
\* returned memories: the table, the index and the (id, score) results
SimilaritySearch(st, memories, query, top_k, t) ==
    IF memories = <<>> THEN [rows |-> st.rows, index |-> st.index, results |-> <<>>]
    ELSE
    LET ix == BuildVocabulary([k \in 1..Len(memories) |-> memories[k].content]
                              \o <<query>>)
        q  == CreateEmbedding(ix, query)
        Stale(m) == m.emb = <<>> \/ Len(m.emb) # Len(ix.vocabulary)
        Emb(m)   == IF Stale(m) THEN CreateEmbedding(q.index, m.content).emb ELSE m.emb
    IN  [rows    |-> {IF \E k \in 1..Len(memories) : memories[k].id = r.id /\ Stale(r)
                      THEN [r EXCEPT !.emb = Emb(r)] ELSE r : r \in st.rows},
         index   |-> q.index,
         results |-> Take(SortByScore(
                              [k \in 1..Len(memories) |->
                                  [id    |-> memories[k].id,
                                   score |-> FinalScore(q.emb, Emb(memories[k]),
                                                        memories[k], t)]],
                              1, <<>>), top_k)]

\* the loop of retrieve, lines 74-82, from the k-th kind on; memories is the
\* list get_by_user gives for the user, of which each search sees one kind
RECURSIVE SearchKinds(_, _, _, _, _, _, _)
SearchKinds(st, memories, query, kinds, k, top_k, t) ==
    IF k > Len(kinds) THEN st
    ELSE LET r == SimilaritySearch(st, SelectSeq(memories, LAMBDA m : m.kind = kinds[k]),
                                   query, top_k, t)
         IN  SearchKinds([rows |-> r.rows, index |-> r.index,
                          results |-> st.results \o r.results],
                         memories, query, kinds, k + 1, top_k, t)

\* a retrieve that does not reinforce what it returns
TouchNone(rows, results, k, t) == rows

\* update_access for each returned entry, lines 88-89
RECURSIVE TouchAll(_, _, _, _)
TouchAll(rows, results, k, t) ==
    IF k > Len(results) THEN rows
    ELSE TouchAll(UpdateAccess(rows, results[k].id, t), results, k + 1, t)

DefaultKinds == <<"episodic", "semantic", "procedural">>

\* retrieve(user, query, kinds, top_k) at time t; kinds = <<>> is None
Retrieve(rows, ix, memories, query, kinds, top_k, t) ==
    LET searched == SearchKinds([rows |-> rows, index |-> ix, results |-> <<>>],
                                memories, query,
                                IF kinds = <<>> THEN DefaultKinds ELSE kinds,
                                1, top_k, t)
        top      == Take(SortByScore(searched.results, 1, <<>>), top_k)
    IN  [rows  |-> TouchAll(searched.rows, top, 1, t),
         index |-> searched.index,
         ret   |-> top]

(***************************************************************************)
(* storage/repositories.py PreferenceRepository, memory/preference_graph.py *)
(* A preference text is the list of its lower-case words.                  *)
(***************************************************************************)
\* set(text.lower().split())
Words(text) == Range(text)

Pref(i, u, cat, text, strength, conf, src) ==
    [id |-> i, user |-> u, category |-> cat, text |-> text,
     strength |-> strength, conf |-> conf, source |-> src, exc |-> <<>>]

\* PreferenceRepository.save (INSERT OR REPLACE by id)
SavePref(rows, row) == {r \in rows : r.id # row.id} \cup {row}

\* PreferenceRepository.update_strength
UpdateStrength(rows, i, strength) ==
    {IF r.id = i THEN [r EXCEPT !.strength = strength] ELSE r : r \in rows}

\* the lists PreferenceRepository.get_by_user(user, category) may return:
\* ORDER BY strength DESC, rows of equal strength in any order
GetPrefs(rows, u, cat) ==
    LET mine == {r \in rows : r.user = u /\ (cat = "" \/ r.category = cat)}
        n    == Cardinality(mine)
    IN  {o \in [1..n -> mine] :
            /\ \A i, j \in 1..n : i # j => o[i] # o[j]
            /\ \A i \in 1..n, j \in 1..n : i < j => o[i].strength >= o[j].strength}

\* overlap >= len(pref_words) * 0.6
Overlaps60(text, existing) ==
    5 * Cardinality(Words(text) \cap Words(existing)) >= 3 * Cardinality(Words(text))

\* find_similar_preference over the list plist: the index of the first
\* match, 0 for None
FindSimilarPreference(plist, text) ==
    LET hits == {k \in 1..Len(plist) : Overlaps60(text, plist[k].text)}
    IN  IF hits = {} THEN 0 ELSE CHOOSE k \in hits : \A l \in hits : k <= l

\* existing.strength after the merge of add_preference
MergedStrengthReplaced(old, strength) == Tenths(strength, 2)

MergedStrength(old, strength) == Min(Unit, old + Tenths(strength, 2))

\* add_preference when get_by_user returned plist; newId is the uuid drawn
\* for a new node.  Gives the table and the returned id.
AddPreference(rows, plist, u, cat, text, strength, conf, src, newId) ==
    LET k == FindSimilarPreference(plist, text)
    IN  IF k # 0
        THEN [rows |-> SavePref(rows,
                         [plist[k] EXCEPT
                            !.strength = MergedStrength(@, strength),
                            !.conf = Min(Unit, (@ + conf) \div 2)]),
              ret  |-> plist[k].id]
        ELSE [rows |-> SavePref(rows, Pref(newId, u, cat, text, strength, conf, src)),
              ret  |-> newId]

\* predict_discomfort, line 162
Negations == {"not", "never", "avoid", "don't", "without"}

\* `a in b` for two words: a is b or a part of b
IsSubstring(a, b) == a = b \/ <<a, b>> \in {<<"not", "notes">>, <<"art", "start">>}

\* `piece in text` for a lower-case text and a piece without blanks
InText(piece, text) == \E k \in 1..Len(text) : IsSubstring(piece, text[k])

\* is_negative_pref, line 163
IsNegativePref(text) == \E neg \in Negations : InText(neg, text)

\* predict_discomfort(user, action) when get_by_user returned plist: one
\* violation for each preference the loop of lines 167-175 breaks on
PredictDiscomfort(plist, action_text) ==
    LET Hit(q) == /\ IsNegativePref(q.text)
                  /\ \E k \in 1..Len(q.text) :
                        q.text[k] \notin Negations /\ InText(q.text[k], action_text)
        hits == SelectSeq(plist, Hit)
    IN  [k \in 1..Len(hits) |->
            [preference_id |-> hits[k].id, preference |-> hits[k].text,
             confidence |-> (hits[k].conf * hits[k].strength) \div Unit,
             type |-> "potential_violation"]]

\* weaken_preference(pref_id, factor) when get_by_user("") returned plist
WeakenPreference(rows, plist, pref_id, factor) ==
    LET hits == {k \in 1..Len(plist) : plist[k].id = pref_id}
    IN  IF hits = {} THEN rows
        ELSE LET pref == plist[CHOOSE k \in hits : \A l \in hits : k <= l]
             IN  UpdateStrength(rows, pref_id, (pref.strength * factor) \div Unit)

\* add_exception(pref_id, context, correct_behavior) when get_by_user("")
\* returned plist; the exception is kept as its correct_behavior
AddException(rows, plist, pref_id, correct_behavior) ==
    LET hits == {k \in 1..Len(plist) : plist[k].id = pref_id}
    IN  IF hits = {} THEN rows
        ELSE LET pref == plist[CHOOSE k \in hits : \A l \in hits : k <= l]
             IN  SavePref(rows, [pref EXCEPT !.exc = Append(@, correct_behavior)])

\* query_relevant_preferences(user, context) when get_by_user returned
\* plist; context_text is the lower-case text of the context values.  The
\* ids of the ten best preferences with a score above 0.1.
QueryRelevantPreferences(plist, context_text) ==
    LET Matches(q) == Cardinality({k \in 1..Len(q.text) : InText(q.text[k], context_text)})
        Relevance(q) == (IF InText(q.category, context_text) THEN Tenths(Unit, 3) ELSE 0)
                        + (IF q.text = <<>> THEN 0
                           ELSE (Tenths(Unit, 5) * Matches(q)) \div Len(q.text))
        Score(q) == (((Relevance(q) * q.strength) \div Unit) * q.conf) \div Unit
        scored == SelectSeq([k \in 1..Len(plist) |->
                                [id |-> plist[k].id, score |-> Score(plist[k])]],
                            LAMBDA x : x.score > Tenths(Unit, 1))
    IN  Take(SortByScore(scored, 1, <<>>), 10)

(***************************************************************************)
(* learning/knowledge_updater.py.  A handler is the list of the repository *)
(* calls it makes, in order; a call may raise, and the handler stops       *)
(* there.  Texts are lists of lower-case words; what a format string puts  *)
(* between them is a word of its own.                                      *)
(***************************************************************************)
Rule(i, u, cond, act, strength, exc, src) ==
    [id |-> i, user |-> u, condition |-> cond, action |-> act,
     strength |-> strength, exc |-> exc, source |-> src]

\* RuleRepository.save (INSERT OR REPLACE by id)
SaveRule(rows, row) == {r \in rows : r.id # row.id} \cup {row}

\* str(uuid.uuid4()): an id no row of the table has
FreshId(rows) ==
    IF rows = {} THEN 1
    ELSE 1 + (CHOOSE m \in {r.id : r \in rows} : \A r \in rows : r.id <= m)

MemoryTypes == {"episodic", "semantic", "procedural", "preference"}

\* _text_similarity(text1, text2) > 0.5
TextSimilarityAbove05(text1, text2) ==
    /\ Words(text1) # {} /\ Words(text2) # {}
    /\ 2 * Cardinality(Words(text1) \cap Words(text2))
         > Cardinality(Words(text1) \cup Words(text2))

\* priority_order.get(u.priority, 4) of apply_updates
ApplyOrder(p) ==
    CASE p = "critical" -> 0
      [] p = "high"     -> 1
      [] p = "medium"   -> 2
      [] p = "low"      -> 3
      [] OTHER          -> 4

\* _apply_behavior_correction at time t
BehaviorCorrectionCalls(u, t) ==
    LET data    == u.payload
        content == <<"when">> \o Get(data, "incorrect_action", <<>>)
                   \o <<":", "instead", "do">> \o Get(data, "correct_action", <<>>)
    IN  <<[op |-> "save_memory",
           row |-> Row(0, u.user, "procedural", content, <<>>, Tenths(Unit, 9), 0, t)]>>
        \o (IF "rule" \in DOMAIN data
            THEN <<[op |-> "save_rule",
                    row |-> Rule(0, u.user, Get(data["rule"], "condition", <<>>),
                                 Get(data["rule"], "action", <<>>),
                                 Get(data["rule"], "strength", Unit),
                                 <<>>, "learned_correction")]>>
            ELSE <<>>)

\* StrengthCalls without the bounds 0.0 and 1.0
StrengthCallsUnclamped(plist, behavior, delta) ==
    LET hits == SelectSeq(plist, LAMBDA q : TextSimilarityAbove05(q.text, behavior))
    IN  [k \in 1..Len(hits) |->
            [op |-> "update_strength", id |-> hits[k].id,
             strength |-> hits[k].strength + delta]]

\* the update_strength calls of a reinforcement: one for each preference of
\* the list more than 0.5 similar to the behavior; delta is the boost, or
\* minus the reduction
StrengthCalls(plist, behavior, delta) ==
    LET hits == SelectSeq(plist, LAMBDA q : TextSimilarityAbove05(q.text, behavior))
    IN  [k \in 1..Len(hits) |->
            [op |-> "update_strength", id |-> hits[k].id,
             strength |-> Max(0, Min(Unit, hits[k].strength + delta))]]

\* _apply_preference_refinement when get_by_user returns plist
PreferenceRefinementCalls(u, plist) ==
    LET data == u.payload
        kind == Get(data, "reinforcement", "None")
    IN  IF kind = "positive"
        THEN <<[op |-> "get_prefs"]>>
             \o StrengthCalls(plist, Get(data, "behavior", <<>>),
                              Get(data, "strength_boost", Tenths(Unit, 1)))
        ELSE IF kind = "negative"
        THEN <<[op |-> "get_prefs"]>>
             \o StrengthCalls(plist, Get(data, "behavior", <<>>),
                              0 - Get(data, "strength_reduction", Tenths(Unit, 2)))
        ELSE <<[op |-> "save_pref",
                row |-> Pref(0, u.user, Get(data, "category", "general"),
                             Get(data, "preference",
                                 Get(data, "inferred_preference", <<>>)),
                             Get(data, "strength", u.conf), u.conf, u.source)]>>

\* _apply_explicit_rule
ExplicitRuleCalls(u) ==
    LET data == u.payload
        cond == Get(data, "condition", <<>>)
        act  == Get(data, "action", <<>>)
    IN  <<[op |-> "save_rule",
           row |-> Rule(0, u.user, cond, act, Get(data, "strength", Unit),
                        Get(data, "exceptions", <<>>), "user_explicit")],
          [op |-> "save_pref",
           row |-> Pref(0, u.user, "rules", cond \o <<"->">> \o act, Unit,
                        (99 * Unit) \div 100, "explicit")]>>

\* _apply_behavioral_pattern at time t
BehavioralPatternCalls(u, t) ==
    LET data   == u.payload
        shifts == Get(data, "pattern_shifts", <<>>)
        infs   == Get(data, "inferred_preferences", <<>>)
    IN  [k \in 1..Len(shifts) |->
            [op |-> "save_memory",
             row |-> Row(0, u.user, "semantic",
                         <<"pattern", "shift:">> \o Get(shifts[k], "pattern_type", <<>>)
                         \o <<"changed", "from">> \o Get(shifts[k], "old_pattern", <<"{}">>)
                         \o <<"to">> \o Get(shifts[k], "new_pattern", <<"{}">>),
                         <<>>, Get(shifts[k], "confidence", Tenths(Unit, 5)), 0, t)]]
        \o [k \in 1..Len(infs) |->
            [op |-> "save_pref",
             row |-> Pref(0, u.user, Get(infs[k], "category", "behavioral"),
                          Get(infs[k], "preference", <<>>),
                          Get(infs[k], "confidence", Tenths(Unit, 5)),
                          Get(infs[k], "confidence", Tenths(Unit, 5)), "inferred")]]

\* _apply_knowledge_update at time t; MemoryType(value) raises ValueError
\* for a value that is no memory type
KnowledgeUpdateCalls(u, t) ==
    LET data == u.payload
        kind == Get(data, "memory_type", "semantic")
    IN  IF kind \notin MemoryTypes THEN <<[op |-> "raise"]>>
        ELSE <<[op |-> "save_memory",
                row |-> Row(0, u.user, kind, Get(data, "content", <<>>), <<>>,
                            u.conf, 0, t)]>>

\* _apply_single_update: the calls of the handler of the update's type, none
\* for another type.  With at most two calls failing before the first
\* update_strength, the order of the list get_by_user returns is immaterial.
ApplySingleCalls(st, u, t) ==
    CASE u.type = "behavior_correction"   -> BehaviorCorrectionCalls(u, t)
      [] u.type = "preference_refinement" ->
            PreferenceRefinementCalls(u,
                CHOOSE o \in GetPrefs(st.prefs, u.user,
                                      Get(u.payload, "category", "general")) : TRUE)
      [] u.type = "explicit_rule"         -> ExplicitRuleCalls(u)
      [] u.type = "behavioral_pattern"    -> BehavioralPatternCalls(u, t)
      [] u.type = "knowledge_update"      -> KnowledgeUpdateCalls(u, t)
      [] OTHER                            -> <<>>

\* one repository call that does not raise
ApplyCall(st, c) ==
    CASE c.op = "save_memory" ->
            [st EXCEPT !.mems = SaveRow(st.mems, [c.row EXCEPT !.id = FreshId(st.mems)])]
      [] c.op = "save_pref" ->
            [st EXCEPT !.prefs = SavePref(st.prefs, [c.row EXCEPT !.id = FreshId(st.prefs)])]
      [] c.op = "save_rule" ->
            [st EXCEPT !.rules = SaveRule(st.rules, [c.row EXCEPT !.id = FreshId(st.rules)])]
      [] c.op = "update_strength" ->
            [st EXCEPT !.prefs = UpdateStrength(st.prefs, c.id, c.strength)]
      [] OTHER -> st

\* the calls from the k-th on; call number failAt raises (0: none does)
RECURSIVE RunCalls(_, _, _, _)
RunCalls(st, cs, k, failAt) ==
    IF k > Len(cs) THEN [st |-> st, ok |-> TRUE]
    ELSE IF cs[k].op = "raise" \/ k = failAt THEN [st |-> st, ok |-> FALSE]
    ELSE RunCalls(ApplyCall(st, cs[k]), cs, k + 1, failAt)

ApplySingleUpdate(st, u, t, failAt) ==
    RunCalls(st, ApplySingleCalls(st, u, t), 1, failAt)

\* a loop over the batch in its input order
InsertInInputOrder(acc, u) == Append(acc, u)

\* updates.sort(key=priority_order.get(...)): stable, ascending
InsertByPriority(acc, u) ==
    LET k == Cardinality({j \in 1..Len(acc) : ApplyOrder(acc[j].prio) <= ApplyOrder(u.prio)})
    IN  SubSeq(acc, 1, k) \o <<u>> \o SubSeq(acc, k + 1, Len(acc))

RECURSIVE SortUpdates(_, _, _)
SortUpdates(updates, k, acc) ==
    IF k > Len(updates) THEN acc
    ELSE SortUpdates(updates, k + 1, InsertByPriority(acc, updates[k]))

\* one turn of the loop of apply_updates
ApplyOne(r, u, t, failAt) ==
    LET x == ApplySingleUpdate(r.st, u, t, failAt)
    IN  [st        |-> x.st,
         applied   |-> IF x.ok THEN Append(r.applied, u.id) ELSE r.applied,
         attempted |-> Append(r.attempted, u.id),
         failed    |-> IF x.ok THEN r.failed ELSE r.failed \cup {u.id}]

\* a loop that re-raises: it stops at the first update that fails
RECURSIVE ApplyFromAbort(_, _, _, _, _)
ApplyFromAbort(r, updates, k, t, fails) ==
    IF k > Len(updates) \/ r.failed # {} THEN r
    ELSE ApplyFromAbort(ApplyOne(r, updates[k], t, fails[updates[k].id]),
                        updates, k + 1, t, fails)

\* the loop of apply_updates, lines 40-46, from the k-th update on
RECURSIVE ApplyFrom(_, _, _, _, _)
ApplyFrom(r, updates, k, t, fails) ==
    IF k > Len(updates) THEN r
    ELSE ApplyFrom(ApplyOne(r, updates[k], t, fails[updates[k].id]),
                   updates, k + 1, t, fails)

\* apply_updates(updates) at time t on the repositories st; fails[id] is the
\* number of the repository call that raises while that update is applied
ApplyUpdates(st, updates, t, fails) ==
    ApplyFrom([st |-> st, applied |-> <<>>, attempted |-> <<>>, failed |-> {}],
              SortUpdates(updates, 1, <<>>), 1, t, fails)

\* CentralNervousSystem._apply_learning: update.update_data["learning_rate"] = rate
AttachRate(u, rate) == [u EXCEPT !.payload = Put(@, "learning_rate", rate)]

(***************************************************************************)
(* learning/forgetting_prevention.py                                       *)
(***************************************************************************)
\* the keys of update_data whose value is a text
TextKeys == {"test", "condition", "action", "behavior", "preference", "content",
             "incorrect_action", "correct_action"}

\* the words of str(text) that split() gives back as they are: all but the
\* first and the last, which carry the quotes of the repr
Interior(text) == {text[k] : k \in 2..(Len(text) - 1)}

\* set(str(update_data).lower().split()): the words inside the texts of the
\* dict and of its "rule"; every other token carries a quote, a brace, a
\* colon or a comma, and is no word of a stored content
NewTerms(data) ==
    UNION {Interior(data[k]) : k \in DOMAIN data \cap TextKeys}
    \cup (IF "rule" \in DOMAIN data
          THEN UNION {Interior(data["rule"][k]) : k \in DOMAIN data["rule"] \cap TextKeys}
          ELSE {})

\* the test of _find_affected_knowledge, line 74
IsAffected(terms, memory) ==
    LET overlap == Cardinality(terms \cap Words(memory.content))
    IN  \/ overlap > 3
        \/ overlap > 0 /\ 10 * overlap > 3 * Cardinality(Words(memory.content))

\* _find_affected_knowledge over the list get_by_user returned
FindAffectedKnowledge(memories, update) ==
    SelectSeq(memories, LAMBDA m : IsAffected(NewTerms(update.payload), m))

\* _calculate_importance of one memory at time t
CalculateImportance(memory, t) ==
    LET base == memory.imp
        freq == IF memory.acc > 10 THEN Min(Unit, base + Tenths(Unit, 1))
                ELSE IF memory.acc > 5 THEN Min(Unit, base + Tenths(Unit, 1) \div 2)
                ELSE base
        days == DaysBetween(memory.at, t)
    IN  IF days < 7 THEN Min(Unit, freq + Tenths(Unit, 1))
        ELSE IF days < 30 THEN Min(Unit, freq + Tenths(Unit, 1) \div 2)
        ELSE freq

BaseRate == Tenths(Unit, 3)

\* a rate with no tier for critical knowledge
CalculateAdaptiveRateModerate(max_importance) ==
    IF max_importance > Tenths(Unit, 7) THEN Tenths(BaseRate, 5)
    ELSE IF max_importance > Tenths(Unit, 5) THEN Tenths(BaseRate, 8)
    ELSE BaseRate

\* _calculate_adaptive_rate
CalculateAdaptiveRate(max_importance) ==
    IF max_importance > Tenths(Unit, 9) THEN Tenths(BaseRate, 1)
    ELSE IF max_importance > Tenths(Unit, 7) THEN Tenths(BaseRate, 5)
    ELSE IF max_importance > Tenths(Unit, 5) THEN Tenths(BaseRate, 8)
    ELSE BaseRate

\* _protect_memory: the protection record of a memory, and the entry
\* _schedule_rehearsal appends
Protection(memory, importance, t) ==
    [id |-> memory.id, importance |-> importance, last_rehearsed |-> t,
     rehearsal_count |-> 0,
     level |-> IF importance > Tenths(Unit, 9) THEN "elevated" ELSE "normal"]

Rehearsal(memory, importance, t) ==
    [memory_id |-> memory.id, user |-> memory.user, importance |-> importance,
     next_rehearsal |-> t + DayUnits * (IF importance > Tenths(Unit, 9) THEN 1
                                        ELSE IF importance > Tenths(Unit, 7) THEN 3
                                        ELSE 7)]

\* the loop of protect_before_update, lines 40-45, from the k-th affected
\* memory on; p holds protected_knowledge, rehearsal_schedule, max_importance
RECURSIVE ProtectFrom(_, _, _, _)
ProtectFrom(p, affected, k, t) ==
    IF k > Len(affected) THEN p
    ELSE LET memory == affected[k]
             score  == CalculateImportance(memory, t)
         IN  IF score > Tenths(Unit, 7)
             THEN ProtectFrom(
                    [protected |-> {q \in p.protected : q.id # memory.id}
                                   \cup {Protection(memory, score, t)},
                     schedule  |-> Append(p.schedule, Rehearsal(memory, score, t)),
                     max       |-> Max(p.max, score)],
                    affected, k + 1, t)
             ELSE ProtectFrom(p, affected, k + 1, t)

\* protect_before_update(user, update) at time t when get_by_user(user)
\* returned memories: protected_knowledge, rehearsal_schedule and the rate
ProtectBeforeUpdate(prot, sched, memories, update, t) ==
    LET affected == FindAffectedKnowledge(memories, update)
        p        == ProtectFrom([protected |-> prot, schedule |-> sched, max |-> 0],
                                affected, 1, t)
    IN  IF affected = <<>>
        THEN [protected |-> prot, schedule |-> sched, rate |-> BaseRate]
        ELSE [protected |-> p.protected, schedule |-> p.schedule,
              rate |-> CalculateAdaptiveRate(p.max)]

\* 2 ** n
RECURSIVE Pow2(_)
Pow2(n) == IF n = 0 THEN 1 ELSE 2 * Pow2(n - 1)

\* a back-off without the cap of 30 days
RehearsalIntervalUncapped(rehearsal_count) == Pow2(rehearsal_count)

\* min(30, 2 ** protection.rehearsal_count), line 180
RehearsalInterval(rehearsal_count) == Min(30, Pow2(rehearsal_count))

\* the loop of perform_rehearsals, lines 164-181, over the positions due of
\* rehearsal_schedule from the k-th on; p holds the memories,
\* protected_knowledge and rehearsal_schedule
RECURSIVE RehearseFrom(_, _, _, _)
RehearseFrom(p, due, k, t) ==
    IF k > Len(due) THEN p
    ELSE LET memory_id == p.schedule[due[k]].memory_id
             prot == {IF q.id = memory_id
                      THEN [q EXCEPT !.last_rehearsed = t, !.rehearsal_count = @ + 1]
                      ELSE q : q \in p.protected}
             mine == {q \in prot : q.id = memory_id}
         IN  RehearseFrom(
                [rows      |-> UpdateAccess(p.rows, memory_id, t),
                 protected |-> prot,
                 schedule  |-> IF mine = {} THEN p.schedule
                               ELSE [p.schedule EXCEPT ![due[k]].next_rehearsal =
                                        t + DayUnits * RehearsalInterval(
                                                (CHOOSE q \in mine : TRUE).rehearsal_count)]],
                due, k + 1, t)

\* perform_rehearsals(user) at time t
PerformRehearsals(rows, prot, sched, user, t) ==
    LET to_rehearse == SelectSeq([k \in 1..Len(sched) |-> k],
                                 LAMBDA k : sched[k].user = user
                                            /\ sched[k].next_rehearsal <= t)
    IN  RehearseFrom([rows |-> rows, protected |-> prot, schedule |-> sched],
                     to_rehearse, 1, t)

(***************************************************************************)
(* feedback/explicit.py, feedback/implicit.py, learning/multi_modal.py.    *)
(* A FeedbackEvent is [user, type, data, context]: data is a dict of texts *)
(* and context the number of entries of context.to_dict(), 0 for None.     *)
(* Of a rejection pattern and of update_data the content_features are left *)
(* out: nothing reads them.                                                *)
(***************************************************************************)
\* Context.to_dict()
ContextEntries == 7

\* ImplicitSignalExtractor.__init__
NewExtractor == [rejection_patterns |-> EmptyPayload, adoption_rates |-> EmptyPayload]

\* ExplicitFeedbackProcessor._handle_direct_correction
HandleDirectCorrection(event, newId, t) ==
    LET wrong   == Get(event.data, "wrong_behavior", <<>>)
        correct == Get(event.data, "correct_behavior", <<>>)
    IN  Update(newId, event.user, "behavior_correction", (95 * Unit) \div 100, "high",
               [incorrect_action |-> wrong, correct_action |-> correct,
                context |-> event.context,
                rule |-> [condition |-> <<"when">> \o wrong \o <<"is", "attempted">>,
                          action |-> correct, strength |-> Unit]],
               {"procedural", "preference"}, "explicit", t)

\* ExplicitFeedbackProcessor._handle_praise
HandlePraise(event, newId, t) ==
    Update(newId, event.user, "preference_refinement", Tenths(Unit, 8), "medium",
           [behavior |-> Get(event.data, "behavior", <<>>), reinforcement |-> "positive",
            strength_boost |-> Tenths(Unit, 2), context |-> event.context],
           {"preference"}, "explicit", t)

\* ExplicitFeedbackProcessor._handle_criticism
HandleCriticism(event, newId, t) ==
    Update(newId, event.user, "preference_refinement", (85 * Unit) \div 100, "high",
           [behavior |-> Get(event.data, "behavior", <<>>), reinforcement |-> "negative",
            strength_reduction |-> Tenths(Unit, 3), context |-> event.context],
           {"preference", "procedural"}, "explicit", t)

\* ExplicitFeedbackProcessor._handle_rule_definition
HandleRuleDefinition(event, newId, t) ==
    Update(newId, event.user, "explicit_rule", (99 * Unit) \div 100, "critical",
           [condition |-> Get(event.data, "condition", <<>>),
            action |-> Get(event.data, "preferred_action", <<>>),
            strength |-> Unit, exceptions |-> <<>>, source |-> "user_explicit"],
           {"preference"}, "explicit", t)

\* ExplicitFeedbackProcessor._handle_preference_statement
HandlePreferenceStatement(event, newId, t) ==
    Update(newId, event.user, "preference_refinement", Tenths(Unit, 9), "high",
           [category |-> Get(event.data, "category", "general"),
            preference |-> Get(event.data, "preference", <<>>),
            strength |-> Tenths(Unit, 9), context |-> event.context],
           {"preference"}, "explicit", t)

\* ExplicitFeedbackProcessor.process: the update, or <<>> for None
ExplicitProcess(event, newId, t) ==
    CASE event.type = "direct_correction"    -> <<HandleDirectCorrection(event, newId, t)>>
      [] event.type = "praise"               -> <<HandlePraise(event, newId, t)>>
      [] event.type = "criticism"            -> <<HandleCriticism(event, newId, t)>>
      [] event.type = "rule_definition"      -> <<HandleRuleDefinition(event, newId, t)>>
      [] event.type = "preference_statement" -> <<HandlePreferenceStatement(event, newId, t)>>
      [] OTHER                               -> <<>>

\* _update_adoption_rate
UpdateAdoptionRate(rates, user, suggestion_type, accepted) ==
    LET mine == Get(rates, user, EmptyPayload)
        old  == Get(mine, suggestion_type, [accepted |-> 0, total |-> 0])
    IN  Put(rates, user,
            Put(mine, suggestion_type,
                [accepted |-> old.accepted + (IF accepted THEN 1 ELSE 0),
                 total    |-> old.total + 1]))

\* a confidence that grows with every rejection, without a cap
IgnoredConfidenceUncapped(rejection_count) ==
    Tenths(Unit, 5) + rejection_count * Tenths(Unit, 1)

\* min(0.9, 0.5 + (rejection_count * 0.1)), line 61
IgnoredConfidence(rejection_count) ==
    Min(Tenths(Unit, 9), Tenths(Unit, 5) + rejection_count * Tenths(Unit, 1))

\* _handle_suggestion_ignored: the extractor and the update
HandleSuggestionIgnored(ext, event, newId, t) ==
    LET suggestion_type == Get(event.data, "suggestion_type", "unknown")
        patterns == Append(Get(ext.rejection_patterns, event.user, <<>>),
                           [suggestion_type |-> suggestion_type,
                            context |-> event.context])
        rejection_count ==
            Cardinality({k \in 1..Len(patterns) :
                            patterns[k].suggestion_type = suggestion_type})
    IN  [ext |-> [rejection_patterns |-> Put(ext.rejection_patterns, event.user, patterns),
                  adoption_rates |-> UpdateAdoptionRate(ext.adoption_rates, event.user,
                                                        suggestion_type, FALSE)],
         ret |-> <<Update(newId, event.user, "preference_refinement",
                          IgnoredConfidence(rejection_count),
                          IF rejection_count > 2 THEN "medium" ELSE "low",
                          [pattern_type |-> "suggestion_rejection",
                           suggestion_type |-> suggestion_type,
                           rejection_count |-> rejection_count,
                           inferred_preference |-> <<"avoid", suggestion_type, "suggestions">>],
                          {"preference"}, "implicit", t)>>]

\* _analyze_modifications
AnalyzeModifications(original, modified) ==
    LET kept     == Words(original) \cap Words(modified)
        rejected == Words(original) \ Words(modified)
        added    == Words(modified) \ Words(original)
    IN  [kept |-> kept, rejected |-> rejected, added |-> added,
         pattern |-> IF Cardinality(rejected) > Cardinality(kept) THEN "major_change"
                     ELSE IF Cardinality(added) > Cardinality(kept) THEN "expansion"
                     ELSE IF Cardinality(rejected) > 0 THEN "refinement"
                     ELSE "minor_addition"]

\* _handle_suggestion_modified
HandleSuggestionModified(ext, event, newId, t) ==
    LET modifications == AnalyzeModifications(Get(event.data, "original", <<>>),
                                              Get(event.data, "modified", <<>>))
    IN  [ext |-> ext,
         ret |-> <<Update(newId, event.user, "preference_refinement",
                          (75 * Unit) \div 100, "medium",
                          [pattern_type |-> "suggestion_modification",
                           suggestion_type |-> Get(event.data, "suggestion_type", "unknown"),
                           kept_aspects |-> modifications.kept,
                           rejected_aspects |-> modifications.rejected,
                           added_aspects |-> modifications.added,
                           modification_pattern |-> modifications.pattern],
                          {"preference", "procedural"}, "implicit", t)>>]

\* _handle_suggestion_accepted
HandleSuggestionAccepted(ext, event, newId, t) ==
    LET suggestion_type == Get(event.data, "suggestion_type", "unknown")
    IN  [ext |-> [ext EXCEPT !.adoption_rates =
                      UpdateAdoptionRate(@, event.user, suggestion_type, TRUE)],
         ret |-> <<Update(newId, event.user, "preference_refinement",
                          Tenths(Unit, 7), "low",
                          [pattern_type |-> "suggestion_acceptance",
                           suggestion_type |-> suggestion_type,
                           inferred_preference |->
                               <<"continue", suggestion_type, "suggestions">>],
                          {"preference"}, "implicit", t)>>]

\* ImplicitSignalExtractor.process: the extractor and the update, <<>> for None
ImplicitProcess(ext, event, newId, t) ==
    CASE event.type = "suggestion_ignored"  -> HandleSuggestionIgnored(ext, event, newId, t)
      [] event.type = "suggestion_modified" -> HandleSuggestionModified(ext, event, newId, t)
      [] event.type = "suggestion_accepted" -> HandleSuggestionAccepted(ext, event, newId, t)
      [] OTHER                              -> [ext |-> ext, ret |-> <<>>]

\* MultiModalLearner.learning_rates
LearningRates == [immediate |-> Tenths(Unit, 8), short_term |-> Tenths(Unit, 3),
                  long_term |-> Tenths(Unit, 1)]

\* MultiModalLearner.process_feedback(event); the two updates get the uuids
\* newId and newId + 1
ProcessFeedback(ext, event, newId, t) ==
    LET explicit_update == ExplicitProcess(event, newId, t)
        implicit        == ImplicitProcess(ext, event, newId + 1, t)
        WithRate(upds, rate) ==
            [k \in 1..Len(upds) |->
                [upds[k] EXCEPT !.payload = Put(@, "learning_rate", rate)]]
    IN  [ext |-> implicit.ext,
         ret |-> WithRate(explicit_update, LearningRates.immediate)
                 \o WithRate(implicit.ret, LearningRates.short_term)]

(***************************************************************************)
(* feedback/behavioral.py.  An interaction is [engagement, duration,       *)
(* context]; context is the dict of Context.to_dict(), of which only       *)
(* time_of_day is read, or the empty dict.  Of a PatternShift the pattern   *)
(* type and the confidence are kept.  Means are compared as fractions.     *)
(***************************************************************************)
ShortLen == 20
MediumLen == 100

\* BehavioralPatternAnalyzer.__init__: the buffers per user
NewAnalyzer == [short_term |-> EmptyPayload, medium_term |-> EmptyPayload]

Interaction(engagement, duration, context) ==
    [engagement |-> engagement, duration |-> duration, context |-> context]

\* deque(maxlen=n).append(x)
DequeAppend(d, x, n) == IF Len(d) < n THEN Append(d, x) ELSE Append(Tail(d), x)

RECURSIVE SumEngagement(_)
SumEngagement(window) ==
    IF window = <<>> THEN 0 ELSE Head(window).engagement + SumEngagement(Tail(window))

RECURSIVE SumDuration(_)
SumDuration(window) ==
    IF window = <<>> THEN 0 ELSE Head(window).duration + SumDuration(Tail(window))

\* [i["context"].get("time_of_day", "") for i in window if i.get("context")]
Hours(window) ==
    LET with == SelectSeq(window, LAMBDA i : ~IsEmptyPayload(i.context))
    IN  [k \in 1..Len(with) |-> Get(with[k].context, "time_of_day", "")]

\* the values max(set(hours), key=hours.count) may give: the order of a set
\* of strings is not fixed, any of the most frequent hours can come first
Dominants(hours) ==
    {h \in Range(hours) : \A g \in Range(hours) : Count(hours, g) <= Count(hours, h)}

\* min(0.9, abs(short_engagement - medium_engagement) * 2), the difference
\* of the means being gap / n
EngagementConfidence(gap, n) == Min(Tenths(Unit, 9), (2 * gap) \div n)

\* _detect_pattern_shifts on the two windows, when the dominant hours taken
\* are short_dominant and medium_dominant
DetectPatternShifts(short, medium, short_dominant, medium_dominant) ==
    LET ns   == Len(short)
        nm   == Len(medium)
        gapE == SumEngagement(short) * nm - SumEngagement(medium) * ns
        absE == IF gapE >= 0 THEN gapE ELSE 0 - gapE
        gapD == SumDuration(short) * nm - SumDuration(medium) * ns
        absD == IF gapD >= 0 THEN gapD ELSE 0 - gapD
    IN  IF ns < 5 \/ nm < 20 THEN <<>>
        ELSE (IF 10 * absE > 2 * Unit * ns * nm
              THEN <<[pattern_type |-> "engagement",
                      confidence |-> EngagementConfidence(absE, ns * nm)]>>
              ELSE <<>>)
             \o (IF Hours(short) # <<>> /\ Hours(medium) # <<>>
                    /\ short_dominant # medium_dominant
                 THEN <<[pattern_type |-> "time_of_day", confidence |-> Tenths(Unit, 7)]>>
                 ELSE <<>>)
             \o (IF SumDuration(medium) > 0 /\ 10 * absD > 3 * SumDuration(medium) * ns
                 THEN <<[pattern_type |-> "interaction_duration",
                         confidence |-> Tenths(Unit, 6)]>>
                 ELSE <<>>)

\* process(event), lines 27-53: the buffers after the event is appended
Buffered(an, user, interaction) ==
    [short_term  |-> Put(an.short_term, user,
                         DequeAppend(Get(an.short_term, user, <<>>), interaction, ShortLen)),
     medium_term |-> Put(an.medium_term, user,
                         DequeAppend(Get(an.medium_term, user, <<>>), interaction, MediumLen))]

(***************************************************************************)
(* Inputs of integrate()                                                   *)
(***************************************************************************)
MaxCtx == 2

UpdateTypes == {"preference_refinement", "explicit_rule"}
Priorities == {"high", "medium"}
Sources == {"explicit", "implicit"}
MemoryKinds == {"semantic", "preference"}
Confidences == {Tenths(Unit, 5), Tenths(Unit, 6), Tenths(Unit, 9)}
Payloads == {EmptyPayload, [test |-> <<"data">>],
             [test |-> <<"data">>, context |-> MaxCtx]}

\* created_at of the first update, and of the others relative to it:
\* an hour or more apart, within the hour before, equal, within the hour after
BaseTime == HourSeconds
CreatedTimes == {0, HourSeconds \div 2, HourSeconds, HourSeconds + HourSeconds \div 2}

\* the first update of a batch: user, affected kind and time are fixed, the
\* other updates vary against it
FirstUpdates ==
    {Update(1, "u1", t, c, p, d, {"semantic"}, s, BaseTime) :
        t \in UpdateTypes, c \in Confidences, p \in Priorities,
        d \in Payloads, s \in Sources}

OtherUpdates(i) ==
    {Update(i, x[1], x[2], x[3], x[4], x[5], {x[6]}, x[7], x[8]) :
        x \in Users \X UpdateTypes \X Confidences \X Priorities \X Payloads
               \X MemoryKinds \X Sources \X CreatedTimes}

\* lists of two LearningUpdate objects; the uuid of each is its position
PairBatches == {<<a, b>> : a \in FirstUpdates, b \in OtherUpdates(2)}

NoCall == [op |-> "none"]

InitRepos ==
    /\ index = EmptyIndex
    /\ implicit_extractor = NewExtractor
    /\ behavioral_analyzer = NewAnalyzer
    /\ mems = {}
    /\ prefs = {}
    /\ rules = {}
    /\ protected = {}
    /\ schedule = <<>>
    /\ now = 0
    /\ calls = 0

InitIntegrate ==
    /\ batch \in PairBatches
    /\ out = <<>>
    /\ last = NoCall
    /\ InitRepos

\* LearningIntegrator.integrate(batch)
DoIntegrate ==
    /\ last.op = "none"
    /\ LET s == Integrate(batch)
       IN  /\ out' = [k \in 1..Len(s.lst) |-> s.objs[s.lst[k]]]
           /\ last' = [op |-> "integrate", after |-> s.objs]
    /\ UNCHANGED <<batch, mems, prefs, rules, protected, schedule, now, calls,
                   index, implicit_extractor, behavioral_analyzer>>

NextIntegrate == DoIntegrate

SpecIntegrate == InitIntegrate /\ [][NextIntegrate]_vars

(***************************************************************************)
(* Claims about integrate()                                                *)
(***************************************************************************)
Integrated == last.op = "integrate"

InOut(i) == \E k \in 1..Len(out) : out[k].id = i
OutOf(i) == out[CHOOSE k \in 1..Len(out) : out[k].id = i]

AbsDiff(a, b) == IF a >= b THEN a - b ELSE b - a

\* same user and at least one shared affected memory kind
MayConflict(u, v) == u.user = v.user /\ u.affected \cap v.affected # {}

ExplicitImplicit(u, v) == u.source = "explicit" /\ v.source = "implicit"

\* a recent_vs_historical pair: same type, created within the hour, and not
\* an explicit/implicit pair (which comes first in the precedence)
RecentVsHistorical(u, v) ==
    /\ MayConflict(u, v)
    /\ ~ExplicitImplicit(u, v) /\ ~ExplicitImplicit(v, u)
    /\ u.type = v.type
    /\ AbsDiff(u.created, v.created) < HourSeconds

\* C1: an explicit and a conflicting implicit update, both with a payload, in
\* either order: the implicit one is absent from the output, the explicit one
\* is present with confidence and payload unchanged.
C1_ExplicitWinsEitherOrder ==
    Integrated =>
        \A i, j \in 1..Len(batch) :
            ( /\ ExplicitImplicit(batch[i], batch[j])
              /\ MayConflict(batch[i], batch[j])
              /\ ~IsEmptyPayload(batch[i].payload)
              /\ ~IsEmptyPayload(batch[j].payload) )
            => /\ ~InOut(j)
               /\ InOut(i)
               /\ OutOf(i).conf = batch[i].conf
               /\ OutOf(i).payload = batch[i].payload

\* C2: a recent_vs_historical pair (both with a payload) whose confidences
\* differ by more than 0.2: the lower-confidence update is absent from the
\* output, in either order.
C2_LowerConfidenceDropped ==
    Integrated =>
        \A i, j \in 1..Len(batch) :
            ( /\ i # j
              /\ RecentVsHistorical(batch[i], batch[j])
              /\ ~IsEmptyPayload(batch[i].payload)
              /\ ~IsEmptyPayload(batch[j].payload)
              /\ batch[i].conf > batch[j].conf + Tenths(Unit, 2) )
            => ~InOut(j)

\* C3 as stated: a recent_vs_historical pair whose confidences differ by at
\* most 0.2: both are in the output, the older one with confidence x 0.7, the
\* newer one with its confidence unchanged.
C3_BothKeptOlderWeakened ==
    Integrated =>
        \A i, j \in 1..Len(batch) :
            ( /\ i # j
              /\ RecentVsHistorical(batch[i], batch[j])
              /\ AbsDiff(batch[i].conf, batch[j].conf) <= Tenths(Unit, 2) )
            => /\ InOut(i) /\ InOut(j)
               /\ batch[i].created < batch[j].created
                    => /\ OutOf(i).conf = Tenths(batch[i].conf, 7)
                       /\ OutOf(j).conf = batch[j].conf

\* C3 amended: the same for two updates that both have a non-empty payload
\* (an update with an empty payload is dropped by the consistency pass).
C3_BothKeptOlderWeakenedNonEmpty ==
    Integrated =>
        \A i, j \in 1..Len(batch) :
            ( /\ i # j
              /\ RecentVsHistorical(batch[i], batch[j])
              /\ AbsDiff(batch[i].conf, batch[j].conf) <= Tenths(Unit, 2)
              /\ ~IsEmptyPayload(batch[i].payload)
              /\ ~IsEmptyPayload(batch[j].payload) )
            => /\ InOut(i) /\ InOut(j)
               /\ batch[i].created < batch[j].created
                    => /\ OutOf(i).conf = Tenths(batch[i].conf, 7)
                       /\ OutOf(j).conf = batch[j].conf

\* a recent_vs_historical pair with a small gap and distinct times went
\* through integrate() and the older one came out weakened
C3_Witness ==
    /\ Integrated
    /\ Len(batch) = 2
    /\ RecentVsHistorical(batch[1], batch[2])
    /\ batch[1].conf = batch[2].conf + Tenths(Unit, 1)
    /\ batch[2].created < batch[1].created
    /\ ~IsEmptyPayload(batch[1].payload) /\ ~IsEmptyPayload(batch[2].payload)
    /\ Len(out) = 2
    /\ OutOf(2).conf < batch[2].conf

\* the rank of a priority in the order critical, high, medium, low
PriorityRank(p) ==
    CASE p = "critical" -> 1 [] p = "high" -> 2 [] p = "medium" -> 3 [] OTHER -> 4

\* u may stand before v: u is not smaller under (priority, confidence, created)
NotSmaller(u, v) ==
    \/ PriorityRank(u.prio) < PriorityRank(v.prio)
    \/ /\ PriorityRank(u.prio) = PriorityRank(v.prio)
       /\ \/ u.conf > v.conf
          \/ u.conf = v.conf /\ u.created >= v.created

\* C15: the list integrate() returns is ordered by priority descending, then
\* by the confidence after conflict resolution descending, then by created
\* time descending: of two adjacent updates the earlier is not smaller.
C15_OutputSorted ==
    Integrated => \A k \in 1..(Len(out) - 1) : NotSmaller(out[k], out[k + 1])

\* both updates are kept with equal priority, the first had the higher
\* confidence on input and stands second because resolution lowered it
C15_Witness ==
    /\ Integrated
    /\ Len(out) = 2
    /\ out[1].id = 2
    /\ out[1].prio = out[2].prio
    /\ batch[1].conf > batch[2].conf
    /\ out[1].conf > out[2].conf

\* C17: every update whose payload is empty on input is absent from the
\* list integrate() returns, and every update of that list has a non-empty
\* payload and a confidence within [0,1].
C17_EmptyDroppedRestConsistent ==
    Integrated =>
        /\ \A k \in 1..Len(batch) : IsEmptyPayload(batch[k].payload) => ~InOut(batch[k].id)
        /\ \A k \in 1..Len(out) :
              /\ ~IsEmptyPayload(out[k].payload)
              /\ out[k].conf >= 0 /\ out[k].conf <= Unit

\* what integrate() returns for the batch b, without the order: the id,
\* confidence and payload of every returned update
Returned(b) ==
    LET s == Integrate(b)
    IN  {[id |-> s.objs[s.lst[k]].id, conf |-> s.objs[s.lst[k]].conf,
          payload |-> s.objs[s.lst[k]].payload] : k \in 1..Len(s.lst)}

\* the batch in the opposite order
Reversed(b) == [k \in 1..Len(b) |-> b[Len(b) + 1 - k]]

\* C21: integrate() gives, for a batch and for the same batch in another
\* order, the same updates with the same confidences and payloads.
C21_OrderIndependent ==
    Integrated => Returned(batch) = Returned(Reversed(batch))

\* C23: after integrate() every update object of the input batch has the
\* confidence and the payload it had before the call.
C23_InputObjectsUntouched ==
    Integrated =>
        \A i \in 1..Len(batch) :
            /\ last.after[i].conf = batch[i].conf
            /\ last.after[i].payload = batch[i].payload

\* the context sizes of the two payloads differ by more than 1.5 times
ContextDiffers(u, v) == IsMoreSpecific(u, v) \/ IsMoreSpecific(v, u)

\* C29: conflict kinds are tried in the order explicit_vs_implicit,
\* recent_vs_historical, specific_vs_general and only the first that matches
\* is resolved: a same-type pair created within the hour whose context sizes
\* differ by more than 1.5 times gets no exception attached (both payloads
\* stay as they were), and an explicit/implicit pair is resolved only by
\* dropping the implicit update (the explicit one keeps confidence and
\* payload).
C29_FirstMatchingKindOnly ==
    Integrated =>
        \A i, j \in 1..Len(batch) :
            /\ ( /\ i # j
                 /\ RecentVsHistorical(batch[i], batch[j])
                 /\ ContextDiffers(batch[i], batch[j]) )
               => /\ last.after[i].payload = batch[i].payload
                  /\ last.after[j].payload = batch[j].payload
            /\ ( /\ MayConflict(batch[i], batch[j])
                 /\ ExplicitImplicit(batch[i], batch[j]) )
               => /\ ~InOut(j)
                  /\ last.after[i].conf = batch[i].conf
                  /\ last.after[i].payload = batch[i].payload

\* C30: two updates of different users, or whose affected memory kinds
\* share no element, are never treated as conflicting: integrate() of the
\* two leaves confidence and payload of both as they were and returns each
\* one that has a non-empty payload, whatever their sources, types, created
\* times and context sizes.
C30_UnrelatedNeverConflict ==
    (Integrated /\ Len(batch) = 2 /\ ~MayConflict(batch[1], batch[2])) =>
        \A i \in 1..2 :
            /\ last.after[i].conf = batch[i].conf
            /\ last.after[i].payload = batch[i].payload
            /\ ~IsEmptyPayload(batch[i].payload)
                  => /\ InOut(i)
                     /\ OutOf(i).conf = batch[i].conf
                     /\ OutOf(i).payload = batch[i].payload

\* an explicit and an implicit update of the same type and time on the same
\* memory kind, with different context sizes, of two users: both came back
C30_Witness ==
    /\ Integrated
    /\ Len(batch) = 2
    /\ batch[1].user # batch[2].user
    /\ batch[1].affected = batch[2].affected
    /\ ExplicitImplicit(batch[1], batch[2])
    /\ batch[1].type = batch[2].type
    /\ batch[1].created = batch[2].created
    /\ ContextDiffers(batch[1], batch[2])
    /\ ~IsEmptyPayload(batch[1].payload) /\ ~IsEmptyPayload(batch[2].payload)
    /\ Len(out) = 2
    /\ OutOf(2).conf = batch[2].conf

\* the number of entries of the context of an update's payload
ContextSize(u) == Get(u.payload, "context", 0)

\* u is the specific and v the general update of a specific_vs_general
\* pair: no explicit/implicit pair, not of one type within the hour
SpecificVsGeneral(u, v) ==
    /\ MayConflict(u, v)
    /\ ~ExplicitImplicit(u, v) /\ ~ExplicitImplicit(v, u)
    /\ ~(u.type = v.type /\ AbsDiff(u.created, v.created) < HourSeconds)
    /\ 2 * ContextSize(u) > 3 * ContextSize(v)

\* C31: for a specific_vs_general conflict integrate() keeps both updates,
\* appends to the general update's payload one exception with the specific
\* update's context and id, and leaves the specific update's payload and
\* both confidences unchanged.
C31_SpecificBecomesException ==
    (Integrated /\ Len(batch) = 2) =>
        \A i, j \in 1..2 :
            (i # j /\ SpecificVsGeneral(batch[i], batch[j])) =>
                /\ InOut(i) /\ InOut(j)
                /\ OutOf(j).payload =
                      Put(batch[j].payload, "exceptions",
                          Get(batch[j].payload, "exceptions", <<>>)
                          \o <<[context |-> ContextSize(batch[i]),
                                override_id |-> batch[i].id]>>)
                /\ OutOf(i).payload = batch[i].payload
                /\ OutOf(i).conf = batch[i].conf
                /\ OutOf(j).conf = batch[j].conf

\* a specific update after a general one with an empty payload, of another
\* type: the general one came back with the exception
C31_Witness ==
    /\ Integrated
    /\ Len(batch) = 2
    /\ SpecificVsGeneral(batch[2], batch[1])
    /\ IsEmptyPayload(batch[1].payload)
    /\ Len(out) = 2
    /\ Len(OutOf(1).payload["exceptions"]) = 1
    /\ OutOf(1).payload["exceptions"][1].override_id = 2

(***************************************************************************)
(* The memory store: consolidate                                           *)
(***************************************************************************)
MaxMems == 3

Contents == {<<"alpha", "alpha", "alpha", "beta">>, <<"alpha", "beta">>,
             <<"alpha", "beta", "beta", "beta">>}

\* a row of another user, similar to every other row
Bystander ==
    Row(0, "u2", "semantic", <<"alpha", "beta">>,
        CreateEmbedding(FirstIndex, <<"alpha", "beta">>).emb, Tenths(Unit, 5), 0, 0)

ConsolidateRows(i) ==
    {Row(i, "u1", "semantic", c, CreateEmbedding(FirstIndex, c).emb, imp, acc, at) :
        c \in Contents, imp \in {Tenths(Unit, 5), Tenths(Unit, 9)},
        acc \in {0, 1}, at \in {0, 1}}

\* rows that differ only in their uuid are alike: the tables hold the rows
\* 1..n in the order of this key
RowKey(r) == ((Count(r.content, Vocabulary[1]) * 4 + r.acc) * 4 + r.at) * (Unit + 1) + r.imp

\* the tables with rows 1..n of the given kind beside the rows in base
RECURSIVE Tables(_, _, _)
Tables(base, rowsFor, n) ==
    IF n = 0 THEN {base}
    ELSE UNION {{t \cup {r} :
                    r \in {q \in rowsFor[n] :
                              \A o \in t : o.id = n - 1 /\ n > 1
                                           => RowKey(o) <= RowKey(q)}} :
                t \in Tables(base, rowsFor, n - 1)}

InitOthers ==
    /\ index = EmptyIndex
    /\ implicit_extractor = NewExtractor
    /\ behavioral_analyzer = NewAnalyzer
    /\ batch = <<>>
    /\ out = <<>>
    /\ prefs = {}
    /\ rules = {}
    /\ protected = {}
    /\ schedule = <<>>
    /\ last = NoCall
    /\ calls = 0

InitConsolidate ==
    /\ mems \in UNION {Tables({Bystander}, [i \in 1..MaxMems |-> ConsolidateRows(i)], n) : n \in 1..MaxMems}
    /\ now = DayUnits
    /\ InitOthers

\* HierarchicalMemory.consolidate(u)
DoConsolidate(u) ==
    /\ \E memories \in GetByUser(mems, u) :
          mems' = Consolidate(mems, memories)
    /\ last' = [op |-> "consolidate", user |-> u, pre |-> mems]
    /\ UNCHANGED <<batch, out, prefs, rules, protected, schedule, now, calls,
                   index, implicit_extractor, behavioral_analyzer>>

NextConsolidate == \E u \in Users : DoConsolidate(u)

SpecConsolidate == InitConsolidate /\ [][NextConsolidate]_vars

\* C4: consolidate is idempotent: right after consolidate(user), another
\* consolidate(user) merges and deletes nothing, whatever list the
\* repository returns.
C4_ConsolidateIdempotent ==
    last.op = "consolidate" =>
        \A memories \in GetByUser(mems, last.user) :
            Consolidate(mems, memories) = mems

\* the relation "cosine similarity > 0.8" between two stored entries
Similar(r, q) ==
    /\ r.id # q.id
    /\ r.emb # <<>> /\ q.emb # <<>>
    /\ CosineAbove08(r.emb, q.emb)

\* the single-link cluster that holds the entries in S, among rows
RECURSIVE ClusterOf(_, _)
ClusterOf(S, rows) ==
    LET T == S \cup {q \in rows : \E m \in S : Similar(m, q)}
    IN  IF T = S THEN S ELSE ClusterOf(T, rows)

\* C32: after consolidate(user), of every single-link cluster of the user's
\* entries with at least two members exactly one entry survives, a member
\* with the highest (importance, access_count), with importance
\* min(1.0, old + 0.1 * cluster size); an entry similar to no other entry
\* is left unchanged.
C32_OneSurvivorPerCluster ==
    last.op = "consolidate" =>
        LET mine == {r \in last.pre : r.user = last.user}
        IN  \A r \in mine :
                LET cluster == ClusterOf({r}, mine)
                IN  IF Cardinality(cluster) >= 2
                    THEN \E best \in cluster :
                            /\ \A m \in cluster : ~Beats(m, best)
                            /\ {q \in mems : \E m \in cluster : m.id = q.id} =
                                  {[best EXCEPT !.imp =
                                       Min(Unit, @ + Tenths(Unit, 1) * Cardinality(cluster))]}
                    ELSE r \in mems

(***************************************************************************)
(* The memory store: forget                                                *)
(***************************************************************************)
MaxTicks == 1

DefaultDecayThreshold == Tenths(Unit, 1)

\* a row of another user that is old, unimportant and never accessed
OldBystander ==
    Row(0, "u2", "semantic", <<"alpha", "beta">>,
        CreateEmbedding(FirstIndex, <<"alpha", "beta">>).emb, 0, 0, 0)

ForgetRows(i) ==
    {Row(i, "u1", "semantic", <<"alpha", "beta">>,
         CreateEmbedding(FirstIndex, <<"alpha", "beta">>).emb, imp, acc, at) :
        imp \in {Tenths(Unit, 1) \div 2, Tenths(Unit, 1), Tenths(Unit, 5)},
        acc \in {2, 3}, at \in 0..DayUnits}

InitForget ==
    /\ mems \in UNION {Tables({OldBystander}, [i \in 1..MaxMems |-> ForgetRows(i)], n) : n \in 1..MaxMems}
    /\ now = DayUnits
    /\ InitOthers

\* thirty days pass
Tick ==
    /\ now < DayUnits + MaxTicks * 30 * DayUnits
    /\ now' = now + 30 * DayUnits
    /\ UNCHANGED <<batch, out, mems, prefs, rules, protected, schedule, last, calls,
                   index, implicit_extractor, behavioral_analyzer>>

\* HierarchicalMemory.forget(u, threshold)
DoForget(u, threshold) ==
    /\ mems' = Forget(mems, u, threshold, now)
    /\ last' = [op |-> "forget", user |-> u, threshold |-> threshold,
                pre |-> mems, t |-> now]
    /\ UNCHANGED <<batch, out, prefs, rules, protected, schedule, now, calls,
                   index, implicit_extractor, behavioral_analyzer>>

NextForget ==
    \/ Tick
    \/ \E u \in Users, th \in {DefaultDecayThreshold, Tenths(Unit, 5)} :
          DoForget(u, th)

SpecForget == InitForget /\ [][NextForget]_vars

\* C5 as stated: forget deletes an entry of the user iff importance <
\* threshold, more than 30 days have passed since its last access and
\* access_count < 3; every other entry is still there.
C5_ForgetIffAllThree ==
    last.op = "forget" =>
        \A r \in last.pre :
            (r \notin mems) <=>
                ( /\ r.user = last.user
                  /\ r.imp < last.threshold
                  /\ last.t - r.at > 30 * DayUnits
                  /\ r.acc < 3 )

\* C5 amended: the same with the age counted in whole days (timedelta.days):
\* the entry goes iff at least 31 full days have passed since its last access.
C5_ForgetIffAllThreeWholeDays ==
    last.op = "forget" =>
        \A r \in last.pre :
            (r \notin mems) <=>
                ( /\ r.user = last.user
                  /\ r.imp < last.threshold
                  /\ last.t - r.at >= 31 * DayUnits
                  /\ r.acc < 3 )

\* a forget() that deleted one entry and kept another one of the same user
\* that is as unimportant and as rarely accessed, but not old enough
C5_Witness ==
    /\ last.op = "forget"
    /\ \E r \in last.pre : r.user = last.user /\ r \notin mems
    /\ \E r \in last.pre :
          /\ r.user = last.user /\ r \in mems
          /\ r.imp < last.threshold /\ r.acc < 3
    /\ \E r \in last.pre :
          /\ r.user = last.user /\ r \in mems
          /\ r.imp < last.threshold /\ last.t - r.at > 30 * DayUnits + DayUnits \div 2
    /\ \E r \in last.pre : r.user # last.user /\ r \in mems /\ r.imp < last.threshold

(***************************************************************************)
(* The preference graph                                                    *)
(***************************************************************************)
MaxCalls == 2

Categories == {"scheduling", "content"}

PrefTexts ==
    {<<"no", "early", "meetings">>, <<"no", "early", "calls">>,
     <<"no", "late", "calls">>, <<"no", "early", "meetings", "on", "monday">>}

Strengths == {0, Tenths(Unit, 5), Unit}

InitPrefs ==
    /\ batch = <<>>
    /\ out = <<>>
    /\ last = NoCall
    /\ InitRepos

\* PreferenceGraph.add_preference(u, cat, text, strength, conf)
DoAddPreference(u, cat, text, strength, conf) ==
    /\ calls < MaxCalls
    /\ calls' = calls + 1
    /\ \E plist \in GetPrefs(prefs, u, cat) :
          LET r == AddPreference(prefs, plist, u, cat, text, strength, conf,
                                 "learned", Cardinality(prefs) + 1)
          IN  /\ prefs' = r.rows
              /\ last' = [op |-> "add_preference", user |-> u, category |-> cat,
                          text |-> text, strength |-> strength, pre |-> prefs,
                          ret |-> r.ret]
    /\ UNCHANGED <<batch, out, mems, rules, protected, schedule, now,
                   index, implicit_extractor, behavioral_analyzer>>

NextPrefs ==
    \E u \in Users, cat \in Categories, text \in PrefTexts,
       strength \in Strengths, conf \in {Tenths(Unit, 5), Unit} :
        DoAddPreference(u, cat, text, strength, conf)

SpecPrefs == InitPrefs /\ [][NextPrefs]_vars

PrefsOf(rows, u, cat) == {r \in rows : r.user = u /\ r.category = cat}

\* the call add_preference(...) found a node of the same user and category
\* that holds at least 60% of the distinct words of its text
AddedOverlapping ==
    /\ last.op = "add_preference"
    /\ \E p \in PrefsOf(last.pre, last.user, last.category) :
          Overlaps60(last.text, p.text)

\* C6: add_preference with a text of which at least 60% of the distinct words
\* occur in an existing preference of the same user and category creates no
\* node, and the matched node's strength does not decrease and is at most 1.
C6_OverlapMergesMonotone ==
    AddedOverlapping =>
        /\ {p.id : p \in prefs} = {p.id : p \in last.pre}
        /\ Cardinality(PrefsOf(prefs, last.user, last.category))
             = Cardinality(PrefsOf(last.pre, last.user, last.category))
        /\ \E p \in last.pre, q \in prefs :
              /\ p.id = last.ret /\ q.id = last.ret
              /\ p.user = last.user /\ p.category = last.category
              /\ Overlaps60(last.text, p.text)
              /\ q.strength >= p.strength
              /\ q.strength <= Unit
        /\ \A p \in last.pre : p.id # last.ret => p \in prefs

\* a merge that raised the strength of a node whose text is not the new text
C6_Witness ==
    /\ AddedOverlapping
    /\ \E p \in last.pre, q \in prefs :
          /\ p.id = last.ret /\ q.id = last.ret
          /\ p.text # last.text
          /\ q.strength > p.strength


(***************************************************************************)
(* The knowledge updater: apply_updates                                    *)
(***************************************************************************)
MaxBatch == 2

\* the repository call that raises while an update is applied: none, the
\* first, the second
FailPoints == {0, 1, 2}

\* rates protect_before_update returns: 0.3 * 0.1 and 0.3
Rates == {(3 * Unit) \div 100, Tenths(Unit, 3)}

ApplyPriorities == {"critical", "medium"}

RuleData == [condition |-> <<"before", "9am">>, action |-> <<"decline", "meetings">>]

ReinforceData(kind, rate) ==
    [reinforcement |-> kind, category |-> "scheduling",
     behavior |-> <<"morning", "meetings">>, learning_rate |-> rate]

NewPrefData == [category |-> "scheduling", preference |-> <<"morning", "meetings">>]

CorrectionData ==
    [incorrect_action |-> <<"schedule", "early">>, correct_action |-> <<"ask", "first">>,
     rule |-> RuleData]

KnowledgeData(kind) == [content |-> <<"alpha", "beta">>, memory_type |-> kind]

PatternData ==
    [pattern_shifts |-> <<[pattern_type |-> <<"timing">>, confidence |-> Tenths(Unit, 6)]>>,
     inferred_preferences |->
        <<[category |-> "scheduling", preference |-> <<"evening", "meetings">>,
           confidence |-> Tenths(Unit, 6)]>>]

\* type and update_data of the updates handed to apply_updates
TypedPayloads ==
    {<<"explicit_rule", RuleData>>,
     <<"preference_refinement", EmptyPayload>>,
     <<"preference_refinement", NewPrefData>>,
     <<"behavior_correction", CorrectionData>>,
     <<"knowledge_update", KnowledgeData("semantic")>>,
     <<"knowledge_update", KnowledgeData("bogus")>>,
     <<"behavioral_pattern", PatternData>>}
    \cup {<<"preference_refinement", ReinforceData(k, r)>> :
             k \in {"positive", "negative"}, r \in Rates}

ApplyCatalog(i) ==
    {Update(i, "u1", x[1], Tenths(Unit, 6), p, x[2], {"preference"}, "explicit", 0) :
        x \in TypedPayloads, p \in ApplyPriorities}

\* lists of 1..MaxBatch updates; the uuid of each is its position
RECURSIVE ApplyBatches(_)
ApplyBatches(n) ==
    IF n = 0 THEN {<<>>}
    ELSE {Append(b, u) : b \in ApplyBatches(n - 1), u \in ApplyCatalog(n)}

\* the preferences add_preference stored before the call
StoredPrefs ==
    {{}} \cup {{Pref(1, "u1", "scheduling", <<"morning", "meetings">>, sg,
                     Tenths(Unit, 5), "explicit"),
                Pref(2, "u2", "scheduling", <<"morning", "meetings">>, Tenths(Unit, 5),
                     Tenths(Unit, 5), "explicit")} :
               sg \in {Tenths(Unit, 5), (95 * Unit) \div 100}}

InitApply ==
    /\ index = EmptyIndex
    /\ implicit_extractor = NewExtractor
    /\ behavioral_analyzer = NewAnalyzer
    /\ prefs \in StoredPrefs
    /\ mems = {}
    /\ rules = {}
    /\ batch = <<>>
    /\ out = <<>>
    /\ protected = {}
    /\ schedule = <<>>
    /\ now = 0
    /\ last = NoCall
    /\ calls = 0

\* KnowledgeUpdater.apply_updates(b), where call fails[id] raises
DoApplyUpdates(b, fails) ==
    /\ last.op = "none"
    /\ LET pre == [mems |-> mems, prefs |-> prefs, rules |-> rules]
           r   == ApplyUpdates(pre, b, now, fails)
       IN  /\ mems' = r.st.mems
           /\ prefs' = r.st.prefs
           /\ rules' = r.st.rules
           /\ last' = [op |-> "apply_updates", batch |-> b, fails |-> fails,
                       pre |-> pre, ret |-> r.applied,
                       attempted |-> r.attempted, failed |-> r.failed]
    /\ UNCHANGED <<batch, out, protected, schedule, now, calls, index, implicit_extractor, behavioral_analyzer>>

NextApply ==
    \E n \in 1..MaxBatch : \E b \in ApplyBatches(n) : \E fails \in [1..n -> FailPoints] :
        DoApplyUpdates(b, fails)

SpecApply == InitApply /\ [][NextApply]_vars

(***************************************************************************)
(* Claims about apply_updates                                              *)
(***************************************************************************)
Applied == last.op = "apply_updates"

NoFailure == \A i \in DOMAIN last.fails : last.fails[i] = 0

ValidExplicitRule(u) ==
    /\ u.type = "explicit_rule"
    /\ Get(u.payload, "condition", <<>>) # <<>>
    /\ Get(u.payload, "action", <<>>) # <<>>

EmptyRefinement(u) == u.type = "preference_refinement" /\ IsEmptyPayload(u.payload)

\* C7: apply_updates on a batch of one valid explicit_rule update and one
\* preference_refinement update with an empty payload, no repository call
\* failing, returns exactly the id of the explicit_rule update.
C7_EmptyRefinementNotApplied ==
    (Applied /\ NoFailure /\ Len(last.batch) = 2) =>
        \A i, j \in 1..2 :
            (ValidExplicitRule(last.batch[i]) /\ EmptyRefinement(last.batch[j]))
            => last.ret = <<last.batch[i].id>>

IdsOf(b) == {b[k].id : k \in 1..Len(b)}

\* the update never completes: its handler raises before any call
AlwaysRaises(u) ==
    u.type = "knowledge_update"
    /\ Get(u.payload, "memory_type", "semantic") \notin MemoryTypes

\* C8: when applying some updates of a batch fails, apply_updates still
\* attempts every update of the batch, once each, and returns exactly the ids
\* of the updates that completed: an update none of whose calls raises is
\* returned, an update whose first call raises is not, and every rule of a
\* returned update is stored.
C8_FailureDoesNotAbortBatch ==
    Applied =>
        /\ Len(last.attempted) = Len(last.batch)
        /\ Range(last.attempted) = IdsOf(last.batch)
        /\ Range(last.ret) = IdsOf(last.batch) \ last.failed
        /\ Len(last.ret) = Cardinality(Range(last.ret))
        /\ \A k \in 1..Len(last.batch) :
              LET u == last.batch[k]
              IN  /\ (last.fails[u.id] = 0 /\ ~AlwaysRaises(u)) => u.id \in Range(last.ret)
                  /\ (last.fails[u.id] = 1 \/ AlwaysRaises(u)) => u.id \notin Range(last.ret)
        /\ Cardinality(rules) >=
              Cardinality({k \in 1..Len(last.batch) :
                              /\ last.batch[k].id \in Range(last.ret)
                              /\ last.batch[k].type \in {"explicit_rule", "behavior_correction"}})

\* C8 witness: the first update attempted failed and a later one was applied
C8_Witness ==
    /\ Applied
    /\ Len(last.attempted) = 2
    /\ last.attempted[1] \in last.failed
    /\ last.ret = <<last.attempted[2]>>
    /\ rules # {}

IsReinforcement(u) ==
    /\ u.type = "preference_refinement"
    /\ Get(u.payload, "reinforcement", "None") \in {"positive", "negative"}

\* the reinforcement matches a stored preference whose strength is 0.5, so
\* that neither bound of [0,1] hides a change
MatchesStored(u, rows) ==
    \E q \in rows :
        /\ q.user = u.user
        /\ q.category = Get(u.payload, "category", "general")
        /\ TextSimilarityAbove05(q.text, Get(u.payload, "behavior", <<>>))
        /\ q.strength = Tenths(Unit, 5)

\* C10: for a reinforcement update that matches a stored preference, a run
\* that differs only in the rate attached to the update ends with different
\* preference strengths.
C10_RateThrottlesReinforcement ==
    (Applied /\ NoFailure /\ Len(last.batch) = 1) =>
        LET u == last.batch[1]
        IN  (IsReinforcement(u) /\ MatchesStored(u, last.pre.prefs)) =>
                \A r \in Rates \ {u.payload["learning_rate"]} :
                    ApplyUpdates(last.pre, <<AttachRate(u, r)>>, now, last.fails).st.prefs
                        # prefs


(***************************************************************************)
(* The forgetting prevention system: protect_before_update                 *)
(***************************************************************************)
MaxProtectMems == 2

\* the clock at the call: day 40
ProtectTime == 40 * DayUnits

ProtectContents == {<<"alpha", "beta">>, <<"gamma", "delta">>,
                    <<"alpha", "gamma", "delta", "omega">>}

\* a memory of another user that the update's words overlap, importance 1.0
CriticalBystander ==
    Row(0, "u2", "semantic", <<"alpha", "beta">>, CreateEmbedding(FirstIndex, <<"alpha", "beta">>).emb,
        Unit, 0, ProtectTime)

\* memories with access counts 0, 6 and 11, last accessed 40, 10 and 0 days
\* before the call
ProtectRows(i) ==
    {Row(i, "u1", "semantic", c, CreateEmbedding(FirstIndex, c).emb, imp, x[1], x[2]) :
        c \in ProtectContents,
        imp \in {Tenths(Unit, 3), (62 * Unit) \div 100, (82 * Unit) \div 100, Tenths(Unit, 9)},
        x \in {<<0, 0>>, <<6, 0>>, <<0, ProtectTime - 10 * DayUnits>>,
               <<11, ProtectTime>>}}

ProtectUpdates ==
    {Update(1, "u1", "knowledge_update", Tenths(Unit, 6), "medium", d, {"semantic"},
            "explicit", 0) :
        d \in {EmptyPayload, [test |-> <<"data">>],
               [content |-> <<"likes", "alpha", "beta", "daily">>],
               [content |-> <<"likes", "gamma", "daily">>]}}

InitProtect ==
    /\ mems \in UNION {Tables({CriticalBystander},
                              [i \in 1..MaxProtectMems |-> ProtectRows(i)], n) :
                          n \in 0..MaxProtectMems}
    /\ now = ProtectTime
    /\ InitOthers

\* ForgettingPreventionSystem.protect_before_update(user, update)
DoProtect(user, update) ==
    /\ last.op = "none"
    /\ \E memories \in GetByUser(mems, user) :
          LET r == ProtectBeforeUpdate(protected, schedule, memories, update, now)
          IN  /\ protected' = r.protected
              /\ schedule' = r.schedule
              /\ last' = [op |-> "protect", user |-> user, update |-> update,
                          ret |-> r.rate]
    /\ UNCHANGED <<batch, out, mems, prefs, rules, now, calls, index, implicit_extractor, behavioral_analyzer>>

NextProtect == \E user \in Users : \E update \in ProtectUpdates : DoProtect(user, update)

SpecProtect == InitProtect /\ [][NextProtect]_vars

\* the memories of the caller's user that the update of the last call affects
AffectedByLast ==
    {m \in mems : m.user = last.user /\ IsAffected(NewTerms(last.update.payload), m)}

\* C9: protect_before_update returns at most 0.03 when an affected memory
\* has a computed importance above 0.9, and exactly 0.3 when no memory of
\* the user is affected.
C9_RateForCriticalAndForNone ==
    last.op = "protect" =>
        /\ (\E m \in AffectedByLast : CalculateImportance(m, now) > Tenths(Unit, 9))
              => last.ret <= (3 * Unit) \div 100
        /\ AffectedByLast = {} => last.ret = Tenths(Unit, 3)

\* C9 witness: a memory stored with importance at most 0.9 is affected, its
\* computed importance is above 0.9, and the rate returned is 0.03
C9_Witness ==
    /\ last.op = "protect"
    /\ \E m \in AffectedByLast :
          m.imp <= Tenths(Unit, 9) /\ CalculateImportance(m, now) > Tenths(Unit, 9)
    /\ \E m \in AffectedByLast : CalculateImportance(m, now) <= Tenths(Unit, 7)
    /\ last.ret = (3 * Unit) \div 100
    /\ schedule # <<>>


\* M: the largest computed importance over the memories the update of the
\* last call affects, 0 when there is none
MaxAffectedImportance ==
    LET scores == {CalculateImportance(m, now) : m \in AffectedByLast}
    IN  IF scores = {} THEN 0 ELSE CHOOSE x \in scores : \A y \in scores : y <= x

\* C22: the rate protect_before_update returns is 0.3 times 0.1 if M > 0.9,
\* 0.5 if 0.7 < M <= 0.9, 0.8 if 0.5 < M <= 0.7 and 1.0 otherwise, M being the
\* largest computed importance over the affected memories.
C22_RateByLargestImportance ==
    last.op = "protect" =>
        last.ret = (CASE MaxAffectedImportance > 9000 -> 300
                      [] MaxAffectedImportance > 7000 /\ MaxAffectedImportance <= 9000 -> 1500
                      [] MaxAffectedImportance > 5000 /\ MaxAffectedImportance <= 7000 -> 2400
                      [] OTHER -> 3000)

(***************************************************************************)
(* The memory store: store, retrieve, update_importance, consolidate       *)
(***************************************************************************)
MaxOps == 4

StoreContents == {<<"alpha", "beta">>, <<"the", "beta">>}

StoreKinds == {"semantic", "procedural"}

\* importance arguments: inside [0,1] and above it
Importances == {Tenths(Unit, 5), Tenths(Unit, 15)}

Queries == {<<"beta", "gamma">>}

KindLists == {<<>>, <<"semantic">>, <<"semantic", "semantic">>}

\* top_k: the default, and one
TopKs == {10, 1}

InitMemory ==
    /\ mems = {}
    /\ now = 0
    /\ InitOthers

\* HierarchicalMemory.store(u, content, kind, imp)
DoStore(u, content, kind, imp) ==
    /\ calls < MaxOps
    /\ LET r == Store(mems, index, u, content, kind, imp, now, FreshId(mems))
       IN  /\ mems' = r.rows
           /\ index' = r.index
           /\ last' = [op |-> "store", user |-> u, id |-> r.ret, pre |-> mems]
    /\ calls' = calls + 1
    /\ UNCHANGED <<batch, out, prefs, rules, protected, schedule, now, implicit_extractor, behavioral_analyzer>>

\* HierarchicalMemory.retrieve(u, query, kinds, top_k)
DoRetrieve(u, query, kinds, top_k) ==
    /\ calls < MaxOps
    /\ \E memories \in GetByUser(mems, u) :
          LET r == Retrieve(mems, index, memories, query, kinds, top_k, now)
          IN  /\ mems' = r.rows
              /\ index' = r.index
              /\ last' = [op |-> "retrieve", user |-> u, query |-> query,
                          kinds |-> kinds, top_k |-> top_k, pre |-> mems,
                          ret |-> r.ret]
    /\ calls' = calls + 1
    /\ UNCHANGED <<batch, out, prefs, rules, protected, schedule, now, implicit_extractor, behavioral_analyzer>>

\* HierarchicalMemory.update_importance(i, imp)
DoUpdateImportance(i, imp) ==
    /\ calls < MaxOps
    /\ mems' = UpdateImportance(mems, i, imp)
    /\ last' = [op |-> "update_importance", id |-> i, pre |-> mems]
    /\ calls' = calls + 1
    /\ UNCHANGED <<batch, out, prefs, rules, protected, schedule, now,
                   index, implicit_extractor, behavioral_analyzer>>

\* a day passes
Elapse ==
    /\ calls < MaxOps
    /\ last.op # "elapse"
    /\ now' = now + DayUnits
    /\ last' = [op |-> "elapse"]
    /\ calls' = calls + 1
    /\ UNCHANGED <<batch, out, mems, prefs, rules, protected, schedule,
                   index, implicit_extractor, behavioral_analyzer>>

NextMemory ==
    \/ \E c \in StoreContents, k \in StoreKinds, imp \in Importances :
          DoStore("u1", c, k, imp)
    \/ \E q \in Queries, kinds \in KindLists, top_k \in TopKs :
          DoRetrieve("u1", q, kinds, top_k)
    \/ \E r \in mems : DoUpdateImportance(r.id, 0 - Tenths(Unit, 5))
    \/ DoConsolidate("u1")
    \/ Elapse

SpecMemory == InitMemory /\ [][NextMemory]_vars

\* the entry of the last retrieve's result with this id has a score above 0
ReturnedPositive(i) ==
    \E k \in 1..Len(last.ret) : last.ret[k].id = i /\ last.ret[k].score > 0

\* C11: after a retrieve(user, query) with the default kinds, every stored
\* entry of the user of kind episodic, semantic or procedural, with
\* importance in [0,1], whose content shares an indexed token with the query,
\* is in the result with a score above 0 when the user held fewer than top_k
\* entries.
C11_StoredEntryRetrievedPositive ==
    (last.op = "retrieve" /\ last.kinds = <<>>) =>
        \A e \in last.pre :
            ( /\ e.user = last.user
              /\ e.kind \in Range(DefaultKinds)
              /\ e.imp >= 0 /\ e.imp <= Unit
              /\ Range(Tokenize(e.content)) \cap Range(Tokenize(last.query)) # {}
              /\ Cardinality({r \in last.pre : r.user = last.user}) < last.top_k )
            => ReturnedPositive(e.id)

\* C13: every stored memory entry has importance within [0,1].
C13_ImportanceWithinUnit ==
    \A r \in mems : r.imp >= 0 /\ r.imp <= Unit


\* the row with this id before the last call
PreRow(i) == CHOOSE p \in last.pre : p.id = i

\* how often the entry stands in the list the last retrieve returned
TimesReturned(i) == Cardinality({k \in 1..Len(last.ret) : last.ret[k].id = i})

\* at most top_k results, of the user and the requested kinds, by descending
\* score
ResultWellFormed ==
    /\ Len(last.ret) <= last.top_k
    /\ \A k \in 1..Len(last.ret) :
          /\ PreRow(last.ret[k].id).user = last.user
          /\ PreRow(last.ret[k].id).kind \in
                Range(IF last.kinds = <<>> THEN DefaultKinds ELSE last.kinds)
    /\ \A k \in 1..(Len(last.ret) - 1) : last.ret[k].score >= last.ret[k + 1].score

\* C18: retrieve(user, query, kinds, top_k) increases access_count by exactly
\* 1 and refreshes last_accessed for every entry it returns, leaves the
\* access_count of every other entry unchanged, and returns at most top_k
\* entries of the requested kinds in descending score order.
C18_RetrieveTouchesReturnedOnce ==
    last.op = "retrieve" =>
        /\ {r.id : r \in mems} = {p.id : p \in last.pre}
        /\ \A r \in mems :
              IF TimesReturned(r.id) > 0
              THEN r.acc = PreRow(r.id).acc + 1 /\ r.at = now
              ELSE r.acc = PreRow(r.id).acc
        /\ ResultWellFormed

\* C18 as it holds: the access_count of an entry grows by the number of
\* times the entry stands in the returned list, which is at most once when
\* the requested kinds are distinct.
C18_RetrieveTouchesPerOccurrence ==
    last.op = "retrieve" =>
        /\ {r.id : r \in mems} = {p.id : p \in last.pre}
        /\ \A r \in mems :
              /\ r.acc = PreRow(r.id).acc + TimesReturned(r.id)
              /\ TimesReturned(r.id) > 0 => r.at = now
              /\ (\A a, b \in 1..Len(last.kinds) : a # b => last.kinds[a] # last.kinds[b])
                    => TimesReturned(r.id) <= 1
        /\ ResultWellFormed

\* a retrieve of one kind with top_k = 1 over two entries of that kind and
\* one of another: one is returned and touched, the others are left alone
C18_Witness ==
    /\ last.op = "retrieve"
    /\ last.kinds = <<"semantic">>
    /\ last.top_k = 1
    /\ Len(last.ret) = 1
    /\ \E r \in mems : TimesReturned(r.id) = 1 /\ r.acc = PreRow(r.id).acc + 1
    /\ \E r \in mems : r.kind = "semantic" /\ TimesReturned(r.id) = 0
    /\ \E r \in mems : r.kind = "procedural"

\* C16: apply_updates attempts the updates of a batch in descending
\* priority order whatever the input order: an update attempted before
\* another has no lower priority, and of two updates of equal priority the
\* one that stands first in the input is attempted first.
C16_AttemptedByPriority ==
    Applied =>
        \A a \in 1..Len(last.attempted) : \A b \in 1..Len(last.attempted) :
            a < b =>
                LET i == last.attempted[a]
                    j == last.attempted[b]
                IN  /\ PriorityRank(last.batch[i].prio) <= PriorityRank(last.batch[j].prio)
                    /\ last.batch[i].prio = last.batch[j].prio => i < j

\* a medium update stands before a critical one and is attempted after it
C16_Witness ==
    /\ Applied
    /\ Len(last.batch) = 2
    /\ last.batch[1].prio = "medium"
    /\ last.batch[2].prio = "critical"
    /\ last.attempted = <<2, 1>>

\* C20: apply_updates on a batch of one update whose payload is empty leaves
\* the memory, preference and rule repositories as they were before the call.
C20_EmptyPayloadChangesNothing ==
    (Applied /\ Len(last.batch) = 1 /\ IsEmptyPayload(last.batch[1].payload)) =>
        /\ mems = last.pre.mems
        /\ prefs = last.pre.prefs
        /\ rules = last.pre.rules

\* C26: an update is applied all-or-nothing: when apply_updates on a batch of
\* one update leaves the update out of the returned ids because a write
\* failed, no repository holds any write of it.
C26_FailedUpdateLeavesNothing ==
    (Applied /\ Len(last.batch) = 1 /\ last.ret = <<>>) =>
        /\ mems = last.pre.mems
        /\ prefs = last.pre.prefs
        /\ rules = last.pre.rules

\* C14: no two preference nodes of one user and one category are such that
\* at least 60% of the words of the one created later occur in the text of
\* the one created earlier, whatever created them (uuids are drawn in
\* increasing order, so the later node is the one with the larger id).
C14_NoOverlappingPreferences ==
    \A p \in prefs : \A q \in prefs :
        ( /\ p.user = q.user
          /\ p.category = q.category
          /\ p.id < q.id
          /\ Words(q.text) # {} )
        => ~Overlaps60(q.text, p.text)

(***************************************************************************)
(* The preference graph: predict_discomfort                                *)
(***************************************************************************)
MaxPrefs == 2

DiscomfortTexts == {<<"never", "schedule", "early">>, <<"take", "notes", "daily">>,
                    <<"prefer", "morning", "meetings">>, <<"avoid">>}

ActionTexts == {<<"schedule", "meeting">>, <<"take", "minutes">>, <<"start", "lunch">>}

DiscomfortPrefs(i) ==
    {Pref(i, "u1", "scheduling", text, sg, Tenths(Unit, 8), "explicit") :
        text \in DiscomfortTexts, sg \in {Tenths(Unit, 5), (95 * Unit) \div 100}}

\* a preference of another user that every action violates
OtherUsersPref ==
    Pref(0, "u2", "scheduling", <<"never", "schedule", "take", "start">>, Unit, Unit,
         "explicit")

RECURSIVE PrefTables(_)
PrefTables(n) ==
    IF n = 0 THEN {{OtherUsersPref}}
    ELSE {t \cup {q} : t \in PrefTables(n - 1), q \in DiscomfortPrefs(n)}

InitDiscomfort ==
    /\ prefs \in UNION {PrefTables(n) : n \in 1..MaxPrefs}
    /\ mems = {}
    /\ rules = {}
    /\ batch = <<>>
    /\ out = <<>>
    /\ protected = {}
    /\ schedule = <<>>
    /\ now = 0
    /\ last = NoCall
    /\ calls = 0
    /\ index = EmptyIndex
    /\ implicit_extractor = NewExtractor
    /\ behavioral_analyzer = NewAnalyzer

\* PreferenceGraph.predict_discomfort(u, action)
DoPredictDiscomfort(u, action_text) ==
    /\ last.op = "none"
    /\ \E plist \in GetPrefs(prefs, u, "") :
          last' = [op |-> "predict_discomfort", user |-> u, action |-> action_text,
                   ret |-> PredictDiscomfort(plist, action_text)]
    /\ UNCHANGED <<batch, out, mems, prefs, rules, protected, schedule, now, calls,
                   index, implicit_extractor, behavioral_analyzer>>

NextDiscomfort == \E u \in Users, a \in ActionTexts : DoPredictDiscomfort(u, a)

SpecDiscomfort == InitDiscomfort /\ [][NextDiscomfort]_vars

\* the violations of the last call reported for preference q
ViolationsOf(q) == {k \in 1..Len(last.ret) : last.ret[k].preference_id = q.id}

HasNegationMarker(text) == Words(text) \cap Negations # {}

\* C12: predict_discomfort reports, for each preference of the user, exactly
\* one violation with confidence = confidence * strength when the preference
\* holds a negation marker and a non-negation word of it occurs in the
\* action, at most one violation in any case, and none when the preference
\* holds no negation marker.
C12_ViolationIffNegationMarker ==
    last.op = "predict_discomfort" =>
        \A q \in prefs :
            /\ Cardinality(ViolationsOf(q)) <= 1
            /\ \A k \in ViolationsOf(q) :
                  last.ret[k].confidence = (q.conf * q.strength) \div Unit
            /\ ( /\ q.user = last.user
                 /\ HasNegationMarker(q.text)
                 /\ (Words(q.text) \ Negations) \cap Words(last.action) # {} )
               => ViolationsOf(q) # {}
            /\ ~HasNegationMarker(q.text) => ViolationsOf(q) = {}


(***************************************************************************)
(* The multi-modal learner: process_feedback                               *)
(***************************************************************************)
MaxEvents == 5

FeedbackTypes ==
    {"direct_correction", "praise", "criticism", "rule_definition",
     "preference_statement", "suggestion_ignored", "suggestion_modified",
     "suggestion_accepted", "behavioral_pattern"}

\* event.data: the keys the handler of the type reads, or nothing
FeedbackData(type) ==
    CASE type = "direct_correction" ->
           {[wrong_behavior |-> <<"scheduled", "early">>,
             correct_behavior |-> <<"schedule", "later">>]}
      [] type \in {"praise", "criticism"} -> {[behavior |-> <<"morning", "meetings">>]}
      [] type = "rule_definition" ->
           {[condition |-> <<"before", "nine">>, preferred_action |-> <<"decline">>]}
      [] type = "preference_statement" ->
           {[category |-> "scheduling", preference |-> <<"morning", "meetings">>]}
      [] type \in {"suggestion_ignored", "suggestion_accepted"} ->
           {EmptyPayload, [suggestion_type |-> "meeting"]}
      [] type = "suggestion_modified" ->
           {[suggestion_type |-> "meeting", original |-> <<"meet", "early">>,
             modified |-> <<"meet", "later">>]}
      [] OTHER -> {EmptyPayload}

FeedbackEvents ==
    {[user |-> u, type |-> type, data |-> d, context |-> ContextEntries] :
        u \in Users, type \in FeedbackTypes, d \in UNION {FeedbackData(ty) : ty \in FeedbackTypes}}

InitFeedback ==
    /\ batch = <<>>
    /\ out = <<>>
    /\ last = NoCall
    /\ InitRepos

\* the suggestion type an event names
SuggestionTypeOf(event) ==
    IF "suggestion_type" \in DOMAIN event.data THEN event.data.suggestion_type
    ELSE "unknown"

\* how many suggestion_ignored events process_feedback has seen so far, by
\* user and suggestion type
Ignored ==
    IF last.op = "process_feedback" THEN last.ignored
    ELSE [x \in Users \X {"meeting", "unknown"} |-> 0]

\* MultiModalLearner.process_feedback(event)
DoProcessFeedback(event) ==
    /\ calls < MaxEvents
    /\ event.data \in FeedbackData(event.type)
    /\ LET r == ProcessFeedback(implicit_extractor, event, 2 * calls + 1, now)
       IN  /\ implicit_extractor' = r.ext
           /\ last' = [op |-> "process_feedback", event |-> event, ret |-> r.ret,
                       ignored |->
                           IF event.type = "suggestion_ignored"
                           THEN [Ignored EXCEPT
                                    ![<<event.user, SuggestionTypeOf(event)>>] = @ + 1]
                           ELSE Ignored]
    /\ calls' = calls + 1
    /\ UNCHANGED <<batch, out, mems, prefs, rules, protected, schedule, now, index, behavioral_analyzer>>

NextFeedback == \E event \in FeedbackEvents : DoProcessFeedback(event)

SpecFeedback == InitFeedback /\ [][NextFeedback]_vars

\* n: the suggestion_ignored events so far of the user and suggestion type of
\* the last event, that event included
IgnoredSoFar == Ignored[<<last.event.user, SuggestionTypeOf(last.event)>>]

\* the table of the policy: confidence and priority by feedback type
PolicyOf(type, n) ==
    CASE type = "direct_correction"    -> <<9500, "high">>
      [] type = "rule_definition"      -> <<9900, "critical">>
      [] type = "praise"               -> <<8000, "medium">>
      [] type = "criticism"            -> <<8500, "high">>
      [] type = "preference_statement" -> <<9000, "high">>
      [] type = "suggestion_modified"  -> <<7500, "medium">>
      [] type = "suggestion_accepted"  -> <<7000, "low">>
      [] type = "suggestion_ignored"   ->
           <<IF 5000 + 1000 * n < 9000 THEN 5000 + 1000 * n ELSE 9000,
             IF n > 2 THEN "medium" ELSE "low">>
      [] OTHER -> <<0, "none">>

\* C19: process_feedback gives at most one update per processor, and the
\* update of an event has the confidence and priority of the policy table;
\* for the n-th suggestion_ignored event of a user and suggestion type the
\* confidence is min(0.9, 0.5 + 0.1 n) and the priority medium if n > 2,
\* else low.
C19_FeedbackPolicy ==
    last.op = "process_feedback" =>
        /\ \A src \in {"explicit", "implicit"} :
              Cardinality({k \in 1..Len(last.ret) : last.ret[k].source = src}) <= 1
        /\ \A k \in 1..Len(last.ret) :
              <<last.ret[k].conf, last.ret[k].prio>> = PolicyOf(last.event.type, IgnoredSoFar)
        /\ last.event.type # "behavioral_pattern" => Len(last.ret) = 1

\* the fifth rejection of one suggestion type by one user, among events of
\* other kinds: the cap is reached
C19_Witness ==
    /\ last.op = "process_feedback"
    /\ last.event.type = "suggestion_ignored"
    /\ IgnoredSoFar = 5
    /\ Len(last.ret) = 1
    /\ last.ret[1].conf = 9000
    /\ last.ret[1].prio = "medium"


(***************************************************************************)
(* The preference graph: weaken_preference                                 *)
(***************************************************************************)
\* factor: the default, and one half
Factors == {Tenths(Unit, 7), Tenths(Unit, 5)}

\* PreferenceGraph.weaken_preference(pref_id, factor)
DoWeakenPreference(pref_id, factor) ==
    /\ last.op = "none"
    /\ \E plist \in GetPrefs(prefs, "", "") :
          /\ prefs' = WeakenPreference(prefs, plist, pref_id, factor)
          /\ last' = [op |-> "weaken_preference", id |-> pref_id, factor |-> factor,
                      pre |-> prefs]
    /\ UNCHANGED <<batch, out, mems, rules, protected, schedule, now, calls,
                   index, implicit_extractor, behavioral_analyzer>>

NextWeaken == \E q \in prefs, factor \in Factors : DoWeakenPreference(q.id, factor)

SpecWeaken == InitDiscomfort /\ [][NextWeaken]_vars

\* C24: weaken_preference(pref_id, factor) on an existing preference, whoever
\* owns it, replaces its strength by strength * factor and leaves every other
\* preference as it was.
C24_WeakenScalesStrength ==
    last.op = "weaken_preference" =>
        prefs = {IF q.id = last.id
                 THEN [q EXCEPT !.strength = (q.strength * last.factor) \div Unit]
                 ELSE q : q \in last.pre}


(***************************************************************************)
(* integrate() on batches of three updates of one user and memory kind     *)
(***************************************************************************)
\* the updates differ in source, type, confidence, created time and context
TripleUpdates(i) ==
    {Update(i, "u1", t, c, "medium", d, {"semantic"}, s, at) :
        t \in {"preference_refinement", "behavior_correction"},
        c \in {Tenths(Unit, 5), Tenths(Unit, 9)},
        d \in {[test |-> <<"data">>], [test |-> <<"data">>, context |-> MaxCtx]},
        s \in {"explicit", "implicit"},
        at \in {0, HourSeconds \div 2}}

TripleBatches ==
    {<<a, b, c>> : a \in TripleUpdates(1), b \in TripleUpdates(2), c \in TripleUpdates(3)}

InitIntegrateThree ==
    /\ batch \in TripleBatches
    /\ out = <<>>
    /\ last = NoCall
    /\ InitRepos

SpecIntegrateThree == InitIntegrateThree /\ [][NextIntegrate]_vars

\* the updates of the batch that integrate() returned, in batch order
Survivors == SelectSeq(batch, LAMBDA u : InOut(u.id))

\* C25: an update that integrate() drops has no effect on the rest of the
\* batch: the surviving updates come out with the confidences and payloads
\* they get when the batch holds them alone.
C25_DroppedUpdateHasNoEffect ==
    Integrated => Returned(batch) = Returned(Survivors)


(***************************************************************************)
(* The forgetting prevention system: protection and rehearsals over time   *)
(***************************************************************************)
MaxSchedule == 3
MaxDays == 80

\* two memories of u1 and one of u2, all important enough to be protected
RehearsalMemories ==
    {Row(1, "u1", "semantic", <<"alpha", "beta">>,
         CreateEmbedding(FirstIndex, <<"alpha", "beta">>).emb, (95 * Unit) \div 100, 0, 0),
     Row(2, "u1", "semantic", <<"gamma", "delta">>,
         CreateEmbedding(FirstIndex, <<"gamma", "delta">>).emb, Tenths(Unit, 8), 0, 0),
     Row(3, "u2", "semantic", <<"alpha", "beta">>,
         CreateEmbedding(FirstIndex, <<"alpha", "beta">>).emb, (95 * Unit) \div 100, 0, 0)}

RehearsalUpdates ==
    {Update(1, "u1", "knowledge_update", Tenths(Unit, 6), "medium", d, {"semantic"},
            "explicit", 0) :
        d \in {[content |-> <<"likes", "alpha", "beta", "daily">>],
               [content |-> <<"likes", "alpha", "gamma", "daily">>]}}

InitRehearse ==
    /\ mems = RehearsalMemories
    /\ now = 0
    /\ InitOthers

\* protect_before_update(user, update), any number of times
DoProtectAgain(user, update) ==
    /\ Len(schedule) < MaxSchedule
    /\ \E memories \in GetByUser(mems, user) :
          LET r == ProtectBeforeUpdate(protected, schedule, memories, update, now)
          IN  /\ protected' = r.protected
              /\ schedule' = r.schedule
              /\ last' = [op |-> "protect", user |-> user, update |-> update,
                          ret |-> r.rate]
    /\ UNCHANGED <<batch, out, mems, prefs, rules, now, calls, index, implicit_extractor, behavioral_analyzer>>

\* ForgettingPreventionSystem.perform_rehearsals(user)
DoPerformRehearsals(user) ==
    /\ last.op # "perform_rehearsals"
    /\ LET r == PerformRehearsals(mems, protected, schedule, user, now)
       IN  /\ mems' = r.rows
           /\ protected' = r.protected
           /\ schedule' = r.schedule
           /\ last' = [op |-> "perform_rehearsals", user |-> user,
                       pre |-> [mems |-> mems, protected |-> protected,
                                schedule |-> schedule]]
    /\ UNCHANGED <<batch, out, prefs, rules, now, calls, index, implicit_extractor, behavioral_analyzer>>

\* some days pass
Pass(days) ==
    /\ last.op # "pass"
    /\ now + DayUnits * days <= DayUnits * MaxDays
    /\ now' = now + DayUnits * days
    /\ last' = [op |-> "pass"]
    /\ UNCHANGED <<batch, out, mems, prefs, rules, protected, schedule, calls,
                   index, implicit_extractor, behavioral_analyzer>>

NextRehearse ==
    \/ \E user \in Users, update \in RehearsalUpdates : DoProtectAgain(user, update)
    \/ \E user \in Users : DoPerformRehearsals(user)
    \/ Pass(16)

SpecRehearse == InitRehearse /\ [][NextRehearse]_vars


Rehearsed == last.op = "perform_rehearsals"

\* the item at position k of the schedule was due when the last call began
WasDue(k) ==
    /\ last.pre.schedule[k].user = last.user
    /\ last.pre.schedule[k].next_rehearsal <= now

\* the items due for memory i among the first n items of the schedule
DueUpTo(i, n) ==
    Cardinality({k \in 1..n : WasDue(k) /\ last.pre.schedule[k].memory_id = i})

\* rehearsal_count of memory i before the last call
CountBefore(i) == (CHOOSE q \in last.pre.protected : q.id = i).rehearsal_count

\* C27: perform_rehearsals(user) handles every item of the user that is due:
\* per item the memory's access_count and the protection record's
\* rehearsal_count grow by 1 and the item moves to now + min(30,
\* 2^rehearsal_count) days; afterwards no item of the user is due, no
\* interval exceeds 30 days, and items not due or of another user are as
\* they were.
C27_RehearsalsHandleDueItems ==
    Rehearsed =>
        LET n == Len(last.pre.schedule)
        IN  /\ Len(schedule) = n
            /\ \A r \in mems : \E p \in last.pre.mems :
                  p.id = r.id /\ r.acc = p.acc + DueUpTo(r.id, n)
            /\ \A q \in protected :
                  q.rehearsal_count = CountBefore(q.id) + DueUpTo(q.id, n)
            /\ \A k \in 1..n :
                  IF WasDue(k)
                  THEN LET i == schedule[k].memory_id
                           c == CountBefore(i) + DueUpTo(i, k)
                       IN  /\ schedule[k].next_rehearsal =
                                 now + DayUnits * (IF Pow2(c) < 30 THEN Pow2(c) ELSE 30)
                           /\ schedule[k].next_rehearsal <= now + DayUnits * 30
                           /\ schedule[k].memory_id = last.pre.schedule[k].memory_id
                  ELSE schedule[k] = last.pre.schedule[k]
            /\ \A k \in 1..n : schedule[k].user = last.user => schedule[k].next_rehearsal > now

\* the fifth rehearsal of a memory: the interval is capped at 30 days, while
\* an item of the other user stays as it was
C27_Witness ==
    /\ Rehearsed
    /\ \E k \in 1..Len(schedule) :
          /\ WasDue(k)
          /\ CountBefore(schedule[k].memory_id) = 4
          /\ schedule[k].next_rehearsal = now + DayUnits * 30
    /\ \E k \in 1..Len(schedule) : schedule[k].user # last.user
    /\ \E r \in mems : \E p \in last.pre.mems : p.id = r.id /\ r.acc = p.acc + 1

\* C35: protect_before_update for a memory that is already protected keeps
\* the scheduler state consistent: the rehearsal_count of a protection
\* record never decreases, and the rehearsal schedule never holds more than
\* one item for the same memory.
C35_ProtectAgainKeepsScheduler ==
    /\ [](\A i, j \in 1..Len(schedule) :
             i # j => schedule[i].memory_id # schedule[j].memory_id)
    /\ [][\A q \in protected : \A r \in protected' :
             q.id = r.id => r.rehearsal_count >= q.rehearsal_count]_vars

\* C36: the embedding similarity_search scores an entry with was computed
\* against the vocabulary built for that search.  After a retrieve of one
\* kind the index is the one of its search, and the embedding used for an
\* entry is the one its row holds: it is the embedding of the content under
\* that index.
C36_ScoredWithSearchVocabulary ==
    (last.op = "retrieve" /\ last.kinds = <<"semantic">>) =>
        \A r \in mems :
            (r.user = last.user /\ r.kind = "semantic") =>
                r.emb = CreateEmbedding(index, r.content).emb

(***************************************************************************)
(* retrieve running beside a writer of the same user.  The reader takes    *)
(* one repository call per step: get_by_user in similarity_search, one     *)
(* save per entry whose embedding has to be rebuilt, one update_access per *)
(* returned entry.  A writer call is taken whole.                          *)
(***************************************************************************)
ReaderQuery == <<"beta", "gamma">>

ReaderTopK == 10

\* old entries of u1, some of them forgettable
ConcurrentRows(i) ==
    {Row(i, "u1", "semantic", <<"alpha", "beta">>,
         CreateEmbedding(FirstIndex, <<"alpha", "beta">>).emb, imp, acc, 0) :
        imp \in {Tenths(Unit, 1) \div 2, Tenths(Unit, 5)}, acc \in {0, 3}}

\* the reader before its first call; deleted and wrote record what the
\* writer has done since
ReaderIdle ==
    [op |-> "retrieve", pc |-> "idle", user |-> "u1", memories |-> <<>>, k |-> 0,
     top |-> <<>>, deleted |-> {}, wrote |-> {}]

InitConcurrent ==
    /\ mems \in UNION {Tables({OldBystander}, [i \in 1..MaxProtectMems |-> ConcurrentRows(i)], n) :
                          n \in 1..MaxProtectMems}
    /\ now = 31 * DayUnits
    /\ index = FirstIndex
    /\ implicit_extractor = NewExtractor
    /\ behavioral_analyzer = NewAnalyzer
    /\ batch = <<>>
    /\ out = <<>>
    /\ prefs = {}
    /\ rules = {}
    /\ protected = {}
    /\ schedule = <<>>
    /\ calls = 0
    /\ last = ReaderIdle

\* similarity_search, line 115: get_by_user, then the vocabulary is rebuilt
\* in memory
SearchLoad ==
    /\ last.pc = "idle"
    /\ \E all \in GetByUser(mems, last.user) :
          LET memories == SelectSeq(all, LAMBDA m : m.kind = "semantic")
              ix == BuildVocabulary([k \in 1..Len(memories) |-> memories[k].content]
                                    \o <<ReaderQuery>>)
          IN  IF memories = <<>>
              THEN /\ last' = [last EXCEPT !.pc = "done"]
                   /\ UNCHANGED index
              ELSE /\ last' = [last EXCEPT !.pc = "search", !.memories = memories, !.k = 1]
                   /\ index' = CreateEmbedding(ix, ReaderQuery).index
    /\ UNCHANGED <<batch, out, mems, prefs, rules, protected, schedule, now, calls,
                   implicit_extractor, behavioral_analyzer>>

\* similarity_search, lines 131-139: the loop over the loaded entries; an
\* entry whose embedding is missing or of another length is re-embedded
\* and saved as it was loaded.  After the last entry the results are scored
\* and sorted.
SearchEntry ==
    /\ last.pc = "search"
    /\ LET m     == last.memories[last.k]
           stale == m.emb = <<>> \/ Len(m.emb) # Len(index.vocabulary)
           fresh == IF stale THEN [m EXCEPT !.emb = CreateEmbedding(index, m.content).emb]
                    ELSE m
           seen  == [last.memories EXCEPT ![last.k] = fresh]
           q     == CreateEmbedding(index, ReaderQuery).emb
           found == Take(SortByScore([k \in 1..Len(seen) |->
                                         [id    |-> seen[k].id,
                                          score |-> FinalScore(q, seen[k].emb, seen[k], now)]],
                                     1, <<>>), ReaderTopK)
       IN  /\ mems' = IF stale THEN SaveRow(mems, fresh) ELSE mems
           /\ last' = IF last.k < Len(seen)
                      THEN [last EXCEPT !.memories = seen, !.k = @ + 1]
                      ELSE [last EXCEPT !.memories = seen, !.pc = "touch", !.k = 1,
                                        !.top = Take(SortByScore(found, 1, <<>>), ReaderTopK)]
    /\ UNCHANGED <<batch, out, prefs, rules, protected, schedule, now, calls,
                   index, implicit_extractor, behavioral_analyzer>>

\* retrieve, lines 88-89: update_access of the next returned entry
SearchTouch ==
    /\ last.pc = "touch"
    /\ mems' = UpdateAccess(mems, last.top[last.k].id, now)
    /\ last' = IF last.k < Len(last.top) THEN [last EXCEPT !.k = @ + 1]
               ELSE [last EXCEPT !.pc = "done"]
    /\ UNCHANGED <<batch, out, prefs, rules, protected, schedule, now, calls,
                   index, implicit_extractor, behavioral_analyzer>>

\* a writer call that leaves the table post: the ids it deleted and the
\* rows it wrote are recorded
WriterCall(post) ==
    /\ calls < MaxCalls
    /\ post # mems
    /\ mems' = post
    /\ LET gone    == {r.id : r \in mems} \ {r.id : r \in post}
           written == post \ mems
       IN  last' = [last EXCEPT
                       !.deleted = @ \cup gone,
                       !.wrote = {w \in @ : w.id \notin gone /\ \A r \in written : r.id # w.id}
                                 \cup written]
    /\ calls' = calls + 1
    /\ UNCHANGED <<batch, out, prefs, rules, protected, schedule, now,
                   index, implicit_extractor, behavioral_analyzer>>

WriterForget ==
    \E threshold \in {DefaultDecayThreshold} : WriterCall(Forget(mems, "u1", threshold, now))

WriterUpdateImportance == \E r \in mems : WriterCall(UpdateImportance(mems, r.id, Tenths(Unit, 9)))

WriterConsolidate == \E memories \in GetByUser(mems, "u1") : WriterCall(Consolidate(mems, memories))

NextConcurrent ==
    \/ SearchLoad
    \/ SearchEntry
    \/ SearchTouch
    \/ WriterForget
    \/ WriterUpdateImportance
    \/ WriterConsolidate

SpecConcurrent == InitConcurrent /\ [][NextConcurrent]_vars

\* C28: a retrieve interleaved with forget, consolidate or update_importance
\* of the same user at single repository calls never undoes the writer's
\* effect: no entry the writer deleted exists again, and no entry the
\* writer wrote holds another importance or a smaller access_count than the
\* writer left.
C28_ReaderKeepsWriterEffect ==
    /\ \A i \in last.deleted : \A r \in mems : r.id # i
    /\ \A w \in last.wrote : \A r \in mems :
          r.id = w.id => (r.imp = w.imp /\ r.acc >= w.acc)

(***************************************************************************)
(* Rehearsal and forgetting: protect_before_update, update_importance,     *)
(* perform_rehearsals and forget of one store, fifteen days at a time.     *)
(* last.rehearsed holds, per memory, the time of its latest rehearsal.     *)
(***************************************************************************)
\* a protected-to-be memory and an unimportant one of u1, and one of u2
ForgettableMemories ==
    {Row(1, "u1", "semantic", <<"alpha", "beta">>,
         CreateEmbedding(FirstIndex, <<"alpha", "beta">>).emb, (95 * Unit) \div 100, 0, 0),
     Row(2, "u1", "semantic", <<"gamma", "delta">>,
         CreateEmbedding(FirstIndex, <<"gamma", "delta">>).emb, Tenths(Unit, 1) \div 2, 0, 0),
     Row(3, "u2", "semantic", <<"alpha", "beta">>,
         CreateEmbedding(FirstIndex, <<"alpha", "beta">>).emb, (95 * Unit) \div 100, 0, 0)}

InitRehearseForget ==
    /\ mems = ForgettableMemories
    /\ now = 0
    /\ index = EmptyIndex
    /\ implicit_extractor = NewExtractor
    /\ behavioral_analyzer = NewAnalyzer
    /\ batch = <<>>
    /\ out = <<>>
    /\ prefs = {}
    /\ rules = {}
    /\ protected = {}
    /\ schedule = <<>>
    /\ calls = 0
    /\ last = [op |-> "none", user |-> "u1", pre |-> {}, rehearsed |-> {}]

\* protect_before_update(user, update)
ProtectStep(user, update) ==
    /\ Len(schedule) < MaxCalls
    /\ \E memories \in GetByUser(mems, user) :
          LET r == ProtectBeforeUpdate(protected, schedule, memories, update, now)
          IN  /\ protected' = r.protected
              /\ schedule' = r.schedule
    /\ last' = [last EXCEPT !.op = "protect", !.user = user]
    /\ UNCHANGED <<batch, out, mems, prefs, rules, now, calls, index, implicit_extractor, behavioral_analyzer>>

\* update_importance(i, 0.05)
LowerStep(i) ==
    /\ calls < MaxCalls
    /\ mems' = UpdateImportance(mems, i, Tenths(Unit, 1) \div 2)
    /\ mems' # mems
    /\ calls' = calls + 1
    /\ last' = [last EXCEPT !.op = "update_importance"]
    /\ UNCHANGED <<batch, out, prefs, rules, protected, schedule, now,
                   index, implicit_extractor, behavioral_analyzer>>

\* perform_rehearsals(user); the memories of the items due are recorded
RehearseStep(user) ==
    /\ last.op # "perform_rehearsals"
    /\ LET r   == PerformRehearsals(mems, protected, schedule, user, now)
           due == {schedule[k].memory_id : k \in {n \in 1..Len(schedule) :
                       schedule[n].user = user /\ schedule[n].next_rehearsal <= now}}
       IN  /\ mems' = r.rows
           /\ protected' = r.protected
           /\ schedule' = r.schedule
           /\ last' = [last EXCEPT
                          !.op = "perform_rehearsals", !.user = user,
                          !.rehearsed = {x \in @ : x.id \notin due}
                                        \cup {[id |-> i, t |-> now] : i \in due}]
    /\ UNCHANGED <<batch, out, prefs, rules, now, calls, index, implicit_extractor, behavioral_analyzer>>

\* forget(user, threshold)
ForgetStep(user, threshold) ==
    /\ last.op # "forget"
    /\ mems' = Forget(mems, user, threshold, now)
    /\ last' = [last EXCEPT !.op = "forget", !.user = user, !.pre = mems]
    /\ UNCHANGED <<batch, out, prefs, rules, protected, schedule, now, calls,
                   index, implicit_extractor, behavioral_analyzer>>

\* fifteen days pass
PassStep ==
    /\ last.op # "pass"
    /\ now + DayUnits * 15 <= DayUnits * MaxDays
    /\ now' = now + DayUnits * 15
    /\ last' = [last EXCEPT !.op = "pass"]
    /\ UNCHANGED <<batch, out, mems, prefs, rules, protected, schedule, calls,
                   index, implicit_extractor, behavioral_analyzer>>

NextRehearseForget ==
    \/ \E update \in RehearsalUpdates : ProtectStep("u1", update)
    \/ \E r \in {q \in mems : q.user = "u1"} : LowerStep(r.id)
    \/ \E user \in Users : RehearseStep(user)
    \/ \E user \in Users, threshold \in {DefaultDecayThreshold, Tenths(Unit, 5)} :
          ForgetStep(user, threshold)
    \/ PassStep

SpecRehearseForget == InitRehearseForget /\ [][NextRehearseForget]_vars

\* the memory was rehearsed at most 30 days before now
RehearsedWithin30(i) ==
    \E x \in last.rehearsed : x.id = i /\ now - x.t <= 30 * DayUnits

\* C33: a forget() of the user that runs within 30 days after a memory was
\* rehearsed by perform_rehearsals does not delete that memory, whatever its
\* importance and access_count.
C33_RehearsedSurvivesForget ==
    last.op = "forget" =>
        \A r \in last.pre :
            (r.user = last.user /\ RehearsedWithin30(r.id)) => r \in mems

\* a memory of importance 0.05 and access_count 1, first accessed 45 days
\* ago and rehearsed 30 days ago, is still there after a forget that
\* deleted another entry
C33_Witness ==
    /\ last.op = "forget"
    /\ mems # last.pre
    /\ \E r \in mems :
          /\ r.user = last.user
          /\ r.imp < DefaultDecayThreshold
          /\ r.acc = 1
          /\ now = 45 * DayUnits
          /\ \E x \in last.rehearsed : x.id = r.id /\ now - x.t = 30 * DayUnits

(***************************************************************************)
(* Preference strengths over sequences of operations                       *)
(***************************************************************************)
MaxSteps == 3

StrengthTexts == {<<"morning", "meetings">>, <<"evening", "calls">>}

\* the batch handed to integrate(): an explicit and an implicit update
StrengthBatch ==
    <<Update(1, "u1", "preference_refinement", Tenths(Unit, 9), "high",
             [test |-> <<"data">>], {"preference"}, "explicit", BaseTime),
      Update(2, "u1", "preference_refinement", Tenths(Unit, 6), "high",
             [test |-> <<"data">>], {"preference"}, "implicit", BaseTime)>>

\* no step yet
NoStep ==
    [op |-> "none", user |-> "", sign |-> "none",
     pre |-> [mems |-> {}, prefs |-> {}, rules |-> {}, schedule |-> <<>>]]

InitStrength ==
    /\ prefs \in StoredPrefs
    /\ mems = ForgettableMemories
    /\ batch = StrengthBatch
    /\ out = <<>>
    /\ rules = {}
    /\ protected = {}
    /\ schedule = <<>>
    /\ now = 0
    /\ calls = 0
    /\ index = EmptyIndex
    /\ implicit_extractor = NewExtractor
    /\ behavioral_analyzer = NewAnalyzer
    /\ last = NoStep

\* what a step records: the operation, its user, the tables before it and,
\* for apply_updates, the reinforcement of the update applied
Record(op, user, sign) ==
    last' = [op |-> op, user |-> user, sign |-> sign,
             pre |-> [mems |-> mems, prefs |-> prefs, rules |-> rules,
                      schedule |-> schedule]]

Counted == calls < MaxSteps /\ calls' = calls + 1

\* PreferenceGraph.add_preference(u, "scheduling", text, strength, 0.5)
AddPreferenceStep(u, text, strength) ==
    /\ Counted
    /\ \E plist \in GetPrefs(prefs, u, "scheduling") :
          prefs' = AddPreference(prefs, plist, u, "scheduling", text, strength,
                                 Tenths(Unit, 5), "learned", FreshId(prefs)).rows
    /\ Record("add_preference", u, "none")
    /\ UNCHANGED <<batch, out, mems, rules, protected, schedule, now,
                   index, implicit_extractor, behavioral_analyzer>>

\* PreferenceGraph.weaken_preference(pref_id)
WeakenPreferenceStep(pref_id) ==
    /\ Counted
    /\ \E plist \in GetPrefs(prefs, "", "") :
          prefs' = WeakenPreference(prefs, plist, pref_id, Tenths(Unit, 7))
    /\ Record("weaken_preference", "", "none")
    /\ UNCHANGED <<batch, out, mems, rules, protected, schedule, now,
                   index, implicit_extractor, behavioral_analyzer>>

\* PreferenceGraph.add_exception(pref_id, context, correct_behavior)
AddExceptionStep(pref_id) ==
    /\ Counted
    /\ \E plist \in GetPrefs(prefs, "", "") :
          prefs' = AddException(prefs, plist, pref_id, <<"ask", "first">>)
    /\ Record("add_exception", "", "none")
    /\ UNCHANGED <<batch, out, mems, rules, protected, schedule, now,
                   index, implicit_extractor, behavioral_analyzer>>

\* PreferenceGraph.query_relevant_preferences(u, context)
QueryStep(u) ==
    /\ Counted
    /\ \E plist \in GetPrefs(prefs, u, "") :
          out' = QueryRelevantPreferences(plist, <<"scheduling", "morning">>)
    /\ Record("query_relevant_preferences", u, "none")
    /\ UNCHANGED <<batch, mems, prefs, rules, protected, schedule, now,
                   index, implicit_extractor, behavioral_analyzer>>

\* PreferenceGraph.predict_discomfort(u, action)
DiscomfortStep(u) ==
    /\ Counted
    /\ \E plist \in GetPrefs(prefs, u, "") :
          out' = PredictDiscomfort(plist, <<"morning", "meetings">>)
    /\ Record("predict_discomfort", u, "none")
    /\ UNCHANGED <<batch, mems, prefs, rules, protected, schedule, now,
                   index, implicit_extractor, behavioral_analyzer>>

\* KnowledgeUpdater.apply_updates([update]), no call raising
ApplyStep(update) ==
    /\ Counted
    /\ LET r == ApplyUpdates([mems |-> mems, prefs |-> prefs, rules |-> rules],
                             <<update>>, now, <<0>>)
       IN  /\ mems' = r.st.mems
           /\ prefs' = r.st.prefs
           /\ rules' = r.st.rules
    /\ Record("apply_updates", update.user,
              IF update.type = "preference_refinement"
              THEN Get(update.payload, "reinforcement", "none") ELSE "none")
    /\ UNCHANGED <<batch, out, protected, schedule, now, index, implicit_extractor, behavioral_analyzer>>

\* HierarchicalMemory.retrieve(u, query)
RetrieveStep(u) ==
    /\ Counted
    /\ \E memories \in GetByUser(mems, u) :
          LET r == Retrieve(mems, index, memories, <<"beta", "gamma">>, <<>>, 10, now)
          IN  /\ mems' = r.rows
              /\ index' = r.index
    /\ Record("retrieve", u, "none")
    /\ UNCHANGED <<batch, out, prefs, rules, protected, schedule, now, implicit_extractor, behavioral_analyzer>>

\* LearningIntegrator.integrate(batch)
IntegrateStep ==
    /\ Counted
    /\ LET s == Integrate(batch)
       IN  out' = [k \in 1..Len(s.lst) |-> s.objs[s.lst[k]]]
    /\ Record("integrate", "", "none")
    /\ UNCHANGED <<batch, mems, prefs, rules, protected, schedule, now,
                   index, implicit_extractor, behavioral_analyzer>>

\* ForgettingPreventionSystem.protect_before_update(u, update)
ProtectUpdateStep(u, update) ==
    /\ Counted
    /\ \E memories \in GetByUser(mems, u) :
          LET r == ProtectBeforeUpdate(protected, schedule, memories, update, now)
          IN  /\ protected' = r.protected
              /\ schedule' = r.schedule
    /\ Record("protect_before_update", u, "none")
    /\ UNCHANGED <<batch, out, mems, prefs, rules, now, index, implicit_extractor, behavioral_analyzer>>

NextStrength ==
    \/ \E text \in StrengthTexts, strength \in Strengths : AddPreferenceStep("u1", text, strength)
    \/ \E q \in prefs : WeakenPreferenceStep(q.id)
    \/ \E q \in prefs : AddExceptionStep(q.id)
    \/ QueryStep("u1")
    \/ DiscomfortStep("u1")
    \/ \E update \in {u \in ApplyCatalog(1) : u.prio = "medium"} : ApplyStep(update)
    \/ RetrieveStep("u1")
    \/ IntegrateStep
    \/ \E update \in RehearsalUpdates : ProtectUpdateStep("u1", update)

SpecStrength == InitStrength /\ [][NextStrength]_vars

Engagements == {0, Unit \div 2, Unit}
Durations == {60, 100}
InteractionContexts == {EmptyPayload, [time_of_day |-> "morning"], [time_of_day |-> "evening"]}

Interactions ==
    {Interaction(e, d, c) : e \in Engagements, d \in Durations, c \in InteractionContexts}

\* n times the interaction x
Repeat(x, n) == [k \in 1..n |-> x]

\* the last n entries of a list
LastOf(window, n) == SubSeq(window, Max(1, Len(window) - n + 1), Len(window))

\* the buffers of u1 after `old` interactions a and `recent` interactions b
AnalyzerAfter(a, old, b, recent) ==
    LET history == Repeat(a, old) \o Repeat(b, recent)
    IN  [short_term  |-> [u \in {"u1"} |-> LastOf(history, ShortLen)],
         medium_term |-> [u \in {"u1"} |-> LastOf(history, MediumLen)]]

InitBehavioral ==
    /\ behavioral_analyzer \in
          {AnalyzerAfter(a, old, b, recent) :
              a \in Interactions, b \in Interactions, old \in {0, 20}, recent \in {4, 19}}
    /\ mems = {}
    /\ prefs = {}
    /\ rules = {}
    /\ batch = <<>>
    /\ out = <<>>
    /\ protected = {}
    /\ schedule = <<>>
    /\ now = 0
    /\ last = NoCall
    /\ calls = 0
    /\ index = EmptyIndex
    /\ implicit_extractor = NewExtractor

\* BehavioralPatternAnalyzer.process(event) up to the detection of shifts:
\* out is the list of pattern shifts of the update, <<>> when there are too
\* few interactions
DoProcessInteraction(user, interaction) ==
    /\ last.op = "none"
    /\ LET an     == Buffered(behavioral_analyzer, user, interaction)
           short  == an.short_term[user]
           medium == an.medium_term[user]
       IN  /\ behavioral_analyzer' = an
           /\ IF Len(short) < 5 THEN out' = <<>>
              ELSE \E sd \in Dominants(Hours(short)) \cup {""},
                      md \in Dominants(Hours(medium)) \cup {""} :
                      /\ Hours(short) # <<>> => sd \in Dominants(Hours(short))
                      /\ Hours(medium) # <<>> => md \in Dominants(Hours(medium))
                      /\ out' = DetectPatternShifts(short, medium, sd, md)
    /\ last' = [op |-> "process", user |-> user]
    /\ UNCHANGED <<batch, mems, prefs, rules, protected, schedule, now, calls, index,
                   implicit_extractor>>

NextBehavioral == \E user \in Users, i \in Interactions : DoProcessInteraction(user, i)

SpecBehavioral == InitBehavioral /\ [][NextBehavioral]_vars

\* C37: every pattern shift that shift detection produces (engagement,
\* time of day, interaction duration) carries a confidence within
\* [0.6, 0.9].
C37_ShiftConfidenceInRange ==
    last.op = "process" =>
        \A k \in 1..Len(out) :
            /\ out[k].confidence >= Tenths(Unit, 6)
            /\ out[k].confidence <= Tenths(Unit, 9)

(***************************************************************************)
(* Two users side by side: each holds an important and an unimportant      *)
(* memory of the same content, a preference, and a protected memory that   *)
(* is due for rehearsal; 31 days have passed since.                        *)
(***************************************************************************)
IsolationMemories ==
    {Row(i, u, "semantic", <<"alpha", "beta">>,
         CreateEmbedding(FirstIndex, <<"alpha", "beta">>).emb, imp, 0, 0) :
        <<i, u, imp>> \in {<<1, "u1", (95 * Unit) \div 100>>, <<2, "u1", Tenths(Unit, 1) \div 2>>,
                           <<3, "u2", (95 * Unit) \div 100>>, <<4, "u2", Tenths(Unit, 1) \div 2>>}}

IsolationPrefs ==
    {Pref(1, "u1", "scheduling", <<"morning", "meetings">>, Tenths(Unit, 5),
          Tenths(Unit, 5), "explicit"),
     Pref(2, "u2", "scheduling", <<"morning", "meetings">>, Tenths(Unit, 5),
          Tenths(Unit, 5), "explicit")}

ProtectingUpdate(u) ==
    Update(1, u, "knowledge_update", Tenths(Unit, 6), "medium",
           [content |-> <<"likes", "alpha", "beta", "daily">>], {"semantic"}, "explicit", 0)

\* protected_knowledge and rehearsal_schedule after protect_before_update
\* of u1 and then of u2 at time 0
IsolationProtection ==
    LET first == ProtectBeforeUpdate({}, <<>>,
                     CHOOSE o \in GetByUser(IsolationMemories, "u1") : TRUE,
                     ProtectingUpdate("u1"), 0)
    IN  ProtectBeforeUpdate(first.protected, first.schedule,
            CHOOSE o \in GetByUser(IsolationMemories, "u2") : TRUE,
            ProtectingUpdate("u2"), 0)

InitIsolation ==
    /\ mems = IsolationMemories
    /\ prefs = IsolationPrefs
    /\ rules = {}
    /\ protected = IsolationProtection.protected
    /\ schedule = IsolationProtection.schedule
    /\ now = 31 * DayUnits
    /\ batch = <<>>
    /\ out = <<>>
    /\ calls = 0
    /\ index = FirstIndex
    /\ implicit_extractor = NewExtractor
    /\ behavioral_analyzer = NewAnalyzer
    /\ last = NoStep

\* HierarchicalMemory.store(u, "beta gamma", semantic, 0.5)
StoreStep(u) ==
    /\ Counted
    /\ LET r == Store(mems, index, u, <<"beta", "gamma">>, "semantic", Tenths(Unit, 5),
                      now, FreshId(mems))
       IN  /\ mems' = r.rows
           /\ index' = r.index
    /\ Record("store", u, "none")
    /\ UNCHANGED <<batch, out, prefs, rules, protected, schedule, now, implicit_extractor,
                   behavioral_analyzer>>

\* HierarchicalMemory.consolidate(u)
ConsolidateStep(u) ==
    /\ Counted
    /\ \E memories \in GetByUser(mems, u) : mems' = Consolidate(mems, memories)
    /\ Record("consolidate", u, "none")
    /\ UNCHANGED <<batch, out, prefs, rules, protected, schedule, now, index,
                   implicit_extractor, behavioral_analyzer>>

\* HierarchicalMemory.forget(u)
ForgetOwnStep(u) ==
    /\ Counted
    /\ mems' = Forget(mems, u, DefaultDecayThreshold, now)
    /\ Record("forget", u, "none")
    /\ UNCHANGED <<batch, out, prefs, rules, protected, schedule, now, index,
                   implicit_extractor, behavioral_analyzer>>

\* ForgettingPreventionSystem.perform_rehearsals(u)
RehearseOwnStep(u) ==
    /\ Counted
    /\ LET r == PerformRehearsals(mems, protected, schedule, u, now)
       IN  /\ mems' = r.rows
           /\ protected' = r.protected
           /\ schedule' = r.schedule
    /\ Record("perform_rehearsals", u, "none")
    /\ UNCHANGED <<batch, out, prefs, rules, now, index, implicit_extractor,
                   behavioral_analyzer>>

NextIsolation ==
    \E u \in Users :
        \/ StoreStep(u)
        \/ RetrieveStep(u)
        \/ ConsolidateStep(u)
        \/ ForgetOwnStep(u)
        \/ \E text \in StrengthTexts : AddPreferenceStep(u, text, Tenths(Unit, 5))
        \/ ProtectUpdateStep(u, ProtectingUpdate(u))
        \/ RehearseOwnStep(u)
        \/ \E update \in {x \in ApplyCatalog(1) : x.prio = "medium"} :
              ApplyStep([update EXCEPT !.user = u])

SpecIsolation == InitIsolation /\ [][NextIsolation]_vars

\* what the tables hold of the users other than u
OthersData(t, u) ==
    [mems     |-> {r \in t.mems : r.user # u},
     prefs    |-> {r \in t.prefs : r.user # u},
     rules    |-> {r \in t.rules : r.user # u},
     schedule |-> SelectSeq(t.schedule, LAMBDA item : item.user # u)]

\* C38: store, retrieve, consolidate, forget, add_preference,
\* protect_before_update, perform_rehearsals and apply_updates for one user
\* leave every memory entry, preference node, rule and rehearsal-schedule
\* item of every other user unchanged.
C38_OtherUsersDataUnchanged ==
    last.op # "none" =>
        OthersData([mems |-> mems, prefs |-> prefs, rules |-> rules,
                    schedule |-> schedule], last.user)
          = OthersData(last.pre, last.user)

\* a consolidate of u1 merged u1's two entries while u2 holds two entries
\* as similar, both still there
C38_Witness ==
    /\ last.op = "consolidate" /\ last.user = "u1"
    /\ Cardinality({r \in mems : r.user = "u1"}) = 1
    /\ Cardinality({r \in last.pre.mems : r.user = "u1"}) = 2
    /\ Cardinality({r \in mems : r.user = "u2"}) = 2
    /\ \E r \in mems : \E q \in mems :
          r.user = "u1" /\ q.user = "u2" /\ Similar(r, q)

(***************************************************************************)
(* core/central_system.py: add_preference of the agent of a user, through  *)
(* provide_feedback, process_feedback and _apply_learning.                 *)
(***************************************************************************)
\* the loop of _apply_learning, lines 339-343, from the k-th update on:
\* protect_before_update, then update_data["learning_rate"] = rate
RECURSIVE ProtectAll(_, _, _, _, _)
ProtectAll(p, integrated, k, memories, t) ==
    IF k > Len(integrated) THEN p
    ELSE LET r == ProtectBeforeUpdate(p.protected, p.schedule, memories, integrated[k], t)
         IN  ProtectAll([protected |-> r.protected, schedule |-> r.schedule,
                         updates |-> Append(p.updates, AttachRate(integrated[k], r.rate))],
                        integrated, k + 1, memories, t)

\* CentralNervousSystem._apply_learning(updates) at time t when get_by_user
\* returns memories
ApplyLearning(st, prot, sched, updates, memories, t) ==
    IF updates = <<>> THEN [st |-> st, protected |-> prot, schedule |-> sched]
    ELSE LET s == Integrate(updates)
             integrated == [k \in 1..Len(s.lst) |-> s.objs[s.lst[k]]]
             p == ProtectAll([protected |-> prot, schedule |-> sched, updates |-> <<>>],
                             integrated, 1, memories, t)
             r == ApplyUpdates(st, p.updates, t, [i \in 1..2 |-> 0])
         IN  [st |-> r.st, protected |-> p.protected, schedule |-> p.schedule]

\* CentralNervousSystem.provide_feedback(feedback_type, data) of the agent
\* of user_id; data holds no "interaction"
ProvideFeedback(st, ext, prot, sched, user_id, feedback_type, data, memories, t) ==
    LET event == [user |-> user_id, type |-> feedback_type, data |-> data,
                  context |-> ContextEntries]
        f == ProcessFeedback(ext, event, 1, t)
        a == ApplyLearning(st, prot, sched, f.ret, memories, t)
    IN  [st |-> a.st, ext |-> f.ext, protected |-> a.protected, schedule |-> a.schedule]

InitAgent ==
    /\ mems = ForgettableMemories
    /\ prefs \in {{}, IsolationPrefs}
    /\ rules = {}
    /\ protected = {}
    /\ schedule = <<>>
    /\ now = 0
    /\ batch = <<>>
    /\ out = <<>>
    /\ calls = 0
    /\ index = FirstIndex
    /\ implicit_extractor = NewExtractor
    /\ behavioral_analyzer = NewAnalyzer
    /\ last = NoStep

\* CentralNervousSystem.add_preference(category, preference, strength) of the
\* agent of user_id
AgentAddPreference(user_id, category, preference, strength) ==
    /\ Counted
    /\ \E memories \in GetByUser(mems, user_id) :
          \E r \in {ProvideFeedback([mems |-> mems, prefs |-> prefs, rules |-> rules],
                                   implicit_extractor, protected, schedule, user_id,
                                   "preference_statement",
                                   [category |-> category, preference |-> preference,
                                    strength |-> strength],
                                   memories, now)} :
              /\ mems' = r.st.mems
              /\ prefs' = r.st.prefs
              /\ rules' = r.st.rules
              /\ implicit_extractor' = r.ext
              /\ protected' = r.protected
              /\ schedule' = r.schedule
    /\ last' = [op |-> "add_preference", user |-> user_id, category |-> category,
                preference |-> preference, strength |-> strength,
                pre |-> [prefs |-> prefs]]
    /\ UNCHANGED <<batch, out, now, index, behavioral_analyzer>>

NextAgent ==
    \E user_id \in Users, category \in Categories, preference \in StrengthTexts,
       strength \in Strengths \cup {Tenths(Unit, 9)} :
        AgentAddPreference(user_id, category, preference, strength)

SpecAgent == InitAgent /\ [][NextAgent]_vars

\* the preference nodes the last add_preference stored
StoredByLast == {q \in prefs : q.id \notin {x.id : x \in last.pre.prefs}}

\* C39: add_preference(category, preference, strength) stores a preference
\* node for the agent's user whose category, text and strength are the given
\* ones, for every strength in [0,1].
C39_StoredStrengthIsArgument ==
    last.op = "add_preference" =>
        \E q \in StoredByLast :
            /\ q.user = last.user
            /\ q.category = last.category
            /\ q.text = last.preference
            /\ q.strength = last.strength

====
